---- MODULE Spec2Model ----
(***************************************************************************)
(* Model of the FSA data collection pipeline (thingvallatech/farmScraper). *)
(*                                                                         *)
(*   SpecCrawl : the tier-2 discovery crawler (src/src/scrapers/           *)
(*               discovery.py), constructed and run up to MaxRuns times    *)
(*               on one site and one raw_pages table.                      *)
(*   SpecPipe  : the orchestrator (src/src/main.py) with its job record.   *)
(*   SpecExtract : extract_program_data of the field extractor             *)
(*               (src/src/scrapers/extractor.py) applied to one page.      *)
(*   SpecPdfFile : process_pdf (src/src/scrapers/pdf_processor.py) applied *)
(*               to one file.                                              *)
(*   SpecPdfBatch, SpecPdfBatchFair : process_discovered_pdfs, up to       *)
(*               MaxProcs processes one after the other on one directory;  *)
(*               the second with a fair event loop.                        *)
(*   SpecTier1 : the NASS and EWG harvesters                               *)
(*               (src/src/scrapers/tier1_api.py).                          *)
(*   SpecPrograms : process_discovered_pages, extract_program_code and     *)
(*               upsert_program (src/src/database/connection.py), up to    *)
(*               MaxPasses extraction runs over the same stored pages.     *)
(*   SpecPdfTier : the query of process_discovered_pdfs on the discovery   *)
(*               jobs and the upsert of the documents rows, up to          *)
(*               MaxTierRuns runs of tier 3.                               *)
(*                                                                         *)
(* Each specification moves the variables of its component and leaves the  *)
(* others at their initial values.                                         *)
(***************************************************************************)
EXTENDS Integers, Sequences, FiniteSets, TLC

(***************************************************************************)
(* Bounds of the model.                                                    *)
(***************************************************************************)
MaxRuns == 2          \* crawlers constructed one after the other on one store
MaxLinks == 2         \* length of the link list of one page
MaxDepthCfg == 1      \* settings.max_crawl_depth ranges over 0..MaxDepthCfg

(***************************************************************************)
(* The URL universe.  The crawler looks at a URL only through substring    *)
(* tests, so a URL is a name together with the outcome of each test.       *)
(***************************************************************************)
START_URL == "programs"     \* https://www.fsa.usda.gov/programs-and-services/
STATE_URL == "state"        \* https://www.fsa.usda.gov/state-offices/North-Dakota/

URLS == {"programs", "state", "loan", "form.pdf"}

\* _classify_link: '.pdf' in link_lower
HasPdf(u) == u \in {"form.pdf"}
\* _classify_link: 'fsa.usda.gov' in link
OnFsa(u) == u \in {"programs", "state", "loan", "form.pdf"}
\* _classify_link: any(keyword in link_lower for keyword in ['program', ..., 'subsidy'])
HasKeyword(u) == u \in {"programs", "loan", "form.pdf"}

\* the link lists a page can carry (order and repetitions as on the page)
LinkLists == UNION {[1..n -> URLS] : n \in 0..MaxLinks}

NoEntry == [url |-> "", depth |-> -1, seq |-> 0]
NoFetch == [url |-> "", depth |-> -1, section |-> "", preVisited |-> FALSE]

\* the raw_pages rows process_discovered_pages selects, ORDER BY url
ProgramPages == <<"programs/arc", "programs/crp">>

\* the PDF URLs a discovery job may list
PdfUrls == {"2023/form.pdf", "2024/form.pdf", "download?id=7"}

\* Python's None is the empty tuple, a value v that is present is <<v>>
None == <<>>
Some(v) == <<v>>

VARIABLES
    max_depth,       \* settings.max_crawl_depth
    site,            \* URL -> what the site gives for it: "ok", "non200", "raise"
                     \* ("unknown" until its first fetch, the same ever after)
    rawPages,        \* keys of the raw_pages table
    rawLinks,        \* per URL the PDF links in the links column of its
                     \* raw_pages row (no row: none); nothing reads the others
    discoveryJobs,   \* scrape_jobs rows of job_type 'discovery', oldest first
    run,             \* number of crawlers constructed so far
    cpc,             \* position of the current crawl
    visited_urls,    \* FSADiscoveryCrawler.visited_urls
    to_visit,        \* FSADiscoveryCrawler.to_visit
    pdf_urls,        \* FSADiscoveryCrawler.pdf_urls
    arrivals,        \* history: entries appended to to_visit in this run
    seeded,          \* history: how __init__ filled the visited set
    preexisting,     \* history: raw_pages keys when the crawler was constructed
    owed,            \* history: URLs without a raw_pages row that the crawl
                     \* before this one had queued within max_depth when it
                     \* was aborted
    prevRun,         \* history: how the crawl before this one went: "aborted",
                     \* "lossy" (ran to its end, a fetched page was not
                     \* stored), "clean" (ran to its end, every fetched page
                     \* was stored), "none"
    relinked,        \* history: some URL was served with 200 a second time
    lastPop,         \* history: the entry dequeued by the last iteration
    lastFetch,       \* history: the last page.goto issued in this run
    fetchCount,      \* history: page.goto calls per URL in this run
    written,         \* history: URLs upserted into raw_pages in this run
    failedFetch,     \* history: URLs whose fetch failed in this run
    drained          \* history: sections whose loop ended on an empty queue

storeVars == <<max_depth, site, rawPages, rawLinks, discoveryJobs, run, relinked>>
crawlerVars == <<cpc, visited_urls, to_visit, pdf_urls>>
histVars == <<arrivals, seeded, preexisting, owed, prevRun, lastPop, lastFetch,
              fetchCount, written, failedFetch, drained>>
cvars == <<storeVars, crawlerVars, histVars>>

VARIABLES
    enable,          \* settings.enable_tier1 .. enable_tier3
    ppc,             \* position of FSADataPipeline.run
    tstate,          \* per tier: "pending", "skipped", "active", "ok" (returned),
                     \* "failed" (exception caught at its boundary), "interrupted"
    t2phase,         \* inside run_tier2: "none", "discovery", "crawled", "extraction"
    job_id,          \* FSADataPipeline.job_id is set
    job,             \* the scrape_jobs row of the pipeline (status "none": no row)
    conn,            \* db._connection is open
    statusWrites,    \* history: UPDATEs of the row's status
    t2log,           \* history: what happened inside run_tier2, in order
    sigintAt         \* history: job.status when the interrupt signal arrived
                     \* ("never": no signal so far)

pvars == <<enable, ppc, tstate, t2phase, job_id, job, conn, statusWrites, t2log,
           sigintAt>>

VARIABLES
    xpc,             \* position of extract_program_data: "page", "extracted"
    page,            \* the page handed to extract_program_data
    program_data     \* the dictionary extract_program_data returns

xvars == <<xpc, page, program_data>>

VARIABLES
    PDFPLUMBER_AVAILABLE,   \* import pdfplumber succeeded
    CAMELOT_AVAILABLE,      \* import camelot succeeded
    fpc,             \* position of process_pdf: "file", "processed"
    pdf,             \* the file handed to process_pdf
    result           \* the dictionary process_pdf returns

fvars == <<PDFPLUMBER_AVAILABLE, CAMELOT_AVAILABLE, fpc, pdf, result>>

VARIABLES
    max_concurrent_requests,   \* settings.max_concurrent_requests
    proc,            \* number of Python processes that ran process_discovered_pdfs
    hash_seed,       \* the string hash seed of the current process
    files,           \* names of the files in settings.pdf_dir
    documents,       \* source_url of the rows of the documents table
    task,            \* per URL: "idle" (not in the batch), "waiting" (for the
                     \* semaphore), "download" (GET in flight), "sleep" (the
                     \* delay before extraction), "done"
    permits,         \* value of the semaphore
    failed_extractions,   \* PDFProcessor.failed_extractions
    urlOutcome,         \* history: how process_pdf_url went for the URL
    stored,          \* history: URLs a download of which wrote a local copy
    refetched        \* history: URLs requested again after they were stored

dvars == <<max_concurrent_requests, proc, hash_seed, files, documents, task,
           permits, failed_extractions, urlOutcome, stored, refetched>>

VARIABLES
    nass_api_key,    \* settings.nass_api_key is set
    apc,             \* position of run_tier1_scrapers: "nass", "nass_save",
                     \* "ewg", "ewg_save", "done"
    calls,           \* requests the current harvester has issued
    pending,         \* a request is in flight
    all_data,        \* responses whose records the current harvester collected
    rows,            \* per harvester: responses whose records were saved
    undelayed,       \* history: no delay was awaited since the last request
    backToBack       \* history: a request was issued while undelayed

avars == <<nass_api_key, apc, calls, pending, all_data, rows, undelayed, backToBack>>

VARIABLES
    nulls_distinct,  \* the unique index behind ON CONFLICT (program_code,
                     \* source_url) treats NULL codes as distinct (the
                     \* PostgreSQL default) or as equal (NULLS NOT DISTINCT)
    raw_html,        \* raw_pages: URL -> words of the page text
    upc,             \* position of process_discovered_pages: "pages", "done"
    pass,            \* number of the extraction run, also the value of NOW()
    cursor,          \* index of the next page of the SELECT ... ORDER BY url
    programs,        \* rows of the programs table, in order of insertion
    extracted,       \* history: the last text given to extract_program_code
                     \* and the code it returned
    last_upsert      \* history: the row handed to the last upsert_program

uvars == <<nulls_distinct, raw_html, upc, pass, cursor, programs, extracted,
           last_upsert>>

VARIABLES
    tpc,             \* position of process_discovered_pdfs: "query", "tasks",
                     \* "done"
    tier_run,        \* number of the tier-3 run, also the value of NOW()
    pdf_url_rows,    \* the pdf_urls list built from the rows of the query
    document_rows,   \* rows of the documents table, in order of insertion
    handled,         \* history: process_pdf_url calls per URL in this run
    first_download   \* history: per URL the download_timestamp its row got
                     \* when it was inserted (0: no row)

tvars == <<tpc, tier_run, pdf_url_rows, document_rows, handled, first_download>>

\* what the actions of one component leave alone
outsideCrawler == <<pvars, xvars, fvars, dvars, avars, uvars, tvars>>
outsidePipeline == <<cvars, xvars, fvars, dvars, avars, uvars, tvars>>
outsideExtractor == <<cvars, pvars, fvars, dvars, avars, uvars, tvars>>
outsidePdfFile == <<cvars, pvars, xvars, dvars, avars, uvars, tvars>>
outsidePdfBatch == <<cvars, pvars, xvars, fvars, avars, uvars, tvars>>
outsideTier1 == <<cvars, pvars, xvars, fvars, dvars, uvars, tvars>>
outsidePrograms == <<cvars, pvars, xvars, fvars, dvars, avars, tvars>>
outsidePdfTier == <<cvars, pvars, xvars, fvars, dvars, avars, uvars>>

vars == <<cvars, pvars, xvars, fvars, dvars, avars, uvars, tvars>>

(***************************************************************************)
(* FSADiscoveryCrawler                                                     *)
(***************************************************************************)

\* mutant of LoadVisited: the query result is ignored
LoadVisitedNothing(ok) == {}

\* _load_visited_urls_from_db: the keys of raw_pages, or the empty set when
\* the query raises (logged as a warning)
LoadVisited(ok) == IF ok THEN rawPages ELSE {}

\* mutant of InitialVisited: resume is not honoured
InitialVisitedEmpty(resume, ok) == {}

\* __init__: the visited set of a new crawler
InitialVisited(resume, ok) == IF resume THEN LoadVisited(ok) ELSE {}

\* self.to_visit.append((url, depth)); n is the arrival number of the entry
Enqueue(q, u, d, n) == Append(q, [url |-> u, depth |-> d, seq |-> n])

\* mutant of Pop: self.to_visit.pop() takes the newest entry
PopLast(q) == [entry |-> q[Len(q)], rest |-> SubSeq(q, 1, Len(q) - 1)]

\* _crawl_from_seed: url, depth = self.to_visit.pop(0)
Pop(q) == [entry |-> Head(q), rest |-> Tail(q)]

\* _crawl_from_seed: while self.to_visit
LoopContinues(q) == q /= <<>>

\* mutant of Dropped: the depth test is missing
DroppedVisitedOnly(u, d, vis) == u \in vis

\* _crawl_from_seed: if url in self.visited_urls or depth > self.max_depth: continue
Dropped(u, d, vis) == u \in vis \/ d > max_depth

\* mutant of MarkVisited: the URL is added only after a 200 response
MarkVisitedOnSuccess(vis, u, kind) == IF kind = "ok" THEN vis \cup {u} ELSE vis

\* mutant of MarkVisited: the URL is not added to the visited set
MarkVisitedNever(vis, u, kind) == vis

\* crawl_page: self.visited_urls.add(url), before the try block and so
\* whatever page.goto gives
MarkVisited(vis, u, kind) == vis \cup {u}

\* mutant of LinkDepth: links are queued two levels down
LinkDepthTwo(current_depth) == current_depth + 2

\* _classify_link: the depth a queued link gets
LinkDepth(current_depth) == current_depth + 1

\* _classify_link on one link; st is (to_visit, pdf_urls, arrivals)
ClassifyLink(st, link, depth, vis) ==
    IF HasPdf(link)
    THEN [st EXCEPT !.pdfs = @ \cup {link}]
    ELSE IF OnFsa(link) /\ HasKeyword(link)
         THEN IF link \notin vis
              THEN [st EXCEPT !.q = Enqueue(@, link, LinkDepth(depth), st.n + 1),
                              !.n = @ + 1]
              ELSE st
         ELSE st

\* crawl_page: for link in links: self._classify_link(link, depth)
RECURSIVE ClassifyAll(_, _, _, _)
ClassifyAll(st, links, depth, vis) ==
    IF links = <<>> THEN st
    ELSE ClassifyAll(ClassifyLink(st, Head(links), depth, vis),
                     Tail(links), depth, vis)

\* crawl(): the section of each _crawl_from_seed call
SectionOf(pc) == IF pc = "loop1" THEN "programs" ELSE "state"

\* run_discovery_crawler -> __init__: a new crawler on the store
Construct ==
    /\ cpc \in {"idle", "done", "aborted"}
    /\ run < MaxRuns
    /\ \E resume \in BOOLEAN, ok \in BOOLEAN :
          /\ ~resume => ok
          /\ visited_urls' = InitialVisited(resume, ok)
          /\ seeded' = IF ~resume THEN "no_resume"
                       ELSE IF ok THEN "loaded" ELSE "load_failed"
    /\ run' = run + 1
    /\ to_visit' = <<>>
    /\ pdf_urls' = {}
    /\ arrivals' = 0
    /\ preexisting' = rawPages
    /\ owed' = IF cpc = "aborted"
               THEN ({to_visit[i].url :
                         i \in {j \in DOMAIN to_visit : to_visit[j].depth <= max_depth}}
                     \cup {lastPop.url}) \ rawPages
               ELSE {}
    /\ prevRun' = IF cpc = "idle" THEN "none"
                   ELSE IF cpc = "aborted" THEN "aborted"
                   ELSE IF \A u \in URLS : fetchCount[u] > 0 => u \in written
                        THEN "clean" ELSE "lossy"
    /\ lastPop' = NoEntry
    /\ lastFetch' = NoFetch
    /\ fetchCount' = [u \in URLS |-> 0]
    /\ written' = {}
    /\ failedFetch' = {}
    /\ drained' = {}
    /\ cpc' = "seed1"
    /\ UNCHANGED <<max_depth, site, rawPages, rawLinks, discoveryJobs, relinked>>
    /\ UNCHANGED outsideCrawler

\* _crawl_from_seed, first statement: the seed enters the queue at depth 0
PushSeed ==
    /\ cpc \in {"seed1", "seed2"}
    /\ to_visit' = Enqueue(to_visit, IF cpc = "seed1" THEN START_URL ELSE STATE_URL,
                           0, arrivals + 1)
    /\ arrivals' = arrivals + 1
    /\ cpc' = IF cpc = "seed1" THEN "loop1" ELSE "loop2"
    /\ UNCHANGED <<storeVars, visited_urls, pdf_urls, seeded,
                   preexisting, owed, prevRun, lastPop, lastFetch, fetchCount,
                   written, failedFetch, drained>>
    /\ UNCHANGED outsideCrawler

\* one iteration of the while loop that takes the `continue` branch
IterDrop ==
    /\ cpc \in {"loop1", "loop2"}
    /\ LoopContinues(to_visit)
    /\ LET p == Pop(to_visit) IN
          /\ Dropped(p.entry.url, p.entry.depth, visited_urls)
          /\ lastPop' = p.entry
          /\ to_visit' = p.rest
    /\ UNCHANGED <<storeVars, cpc, visited_urls, pdf_urls,
                   arrivals, seeded, preexisting, owed, prevRun, lastFetch,
                   fetchCount, written, failedFetch, drained>>
    /\ UNCHANGED outsideCrawler

\* one iteration in which browser.new_page() raises: the exception leaves
\* _crawl_from_seed and crawl() (browser.close() in its finally), so
\* save_discoveries is not reached
IterBrowserFails ==
    /\ cpc \in {"loop1", "loop2"}
    /\ LoopContinues(to_visit)
    /\ LET p == Pop(to_visit) IN
          /\ ~Dropped(p.entry.url, p.entry.depth, visited_urls)
          /\ lastPop' = p.entry
          /\ to_visit' = p.rest
    /\ cpc' = "aborted"
    /\ UNCHANGED <<storeVars, visited_urls, pdf_urls,
                   arrivals, seeded, preexisting, owed, prevRun, lastFetch,
                   fetchCount, written, failedFetch, drained>>
    /\ UNCHANGED outsideCrawler

\* one iteration that reaches crawl_page and issues page.goto
\*   kind        what the page gives: 200 ("ok"), another status ("non200"),
\*               or page.goto / a later page call raises ("raise")
\*   links       the link list of the page
\*   saveOk      db.upsert_raw_page succeeds (_save_page_to_db logs a failure)
IterFetch(kind, links, saveOk) ==
    /\ cpc \in {"loop1", "loop2"}
    /\ LoopContinues(to_visit)
    /\ LET p == Pop(to_visit)
           e == p.entry
       IN
          /\ ~Dropped(e.url, e.depth, visited_urls)
          \* crawl_page: if url in self.visited_urls: return
          /\ e.url \notin visited_urls
          /\ site[e.url] \in {"unknown", kind}
          /\ site' = [site EXCEPT ![e.url] = kind]
          /\ relinked' = (relinked \/ (kind = "ok" /\ site[e.url] = "ok"))
          /\ lastPop' = e
          /\ visited_urls' = MarkVisited(visited_urls, e.url, kind)
          /\ lastFetch' = [url |-> e.url, depth |-> e.depth,
                           section |-> SectionOf(cpc),
                           preVisited |-> e.url \in visited_urls]
          /\ fetchCount' = [fetchCount EXCEPT ![e.url] = @ + 1]
          /\ IF kind = "ok"
             THEN LET st == ClassifyAll([q |-> p.rest, pdfs |-> pdf_urls, n |-> arrivals],
                                        links, e.depth, visited_urls')
                  IN /\ to_visit' = st.q
                     /\ pdf_urls' = st.pdfs
                     /\ arrivals' = st.n
                     /\ IF saveOk
                        THEN /\ rawPages' = rawPages \cup {e.url}
                             /\ rawLinks' = [rawLinks EXCEPT ![e.url] =
                                    {links[i] : i \in {j \in DOMAIN links : HasPdf(links[j])}}]
                             /\ written' = written \cup {e.url}
                        ELSE UNCHANGED <<rawPages, rawLinks, written>>
                     /\ UNCHANGED failedFetch
             ELSE /\ to_visit' = p.rest
                  /\ failedFetch' = failedFetch \cup {e.url}
                  /\ UNCHANGED <<pdf_urls, arrivals, rawPages, rawLinks, written>>
    /\ UNCHANGED <<max_depth, discoveryJobs, run, cpc, seeded, preexisting, owed,
                   prevRun, drained>>
    /\ UNCHANGED outsideCrawler

IterFetchOk == \E links \in LinkLists : IterFetch("ok", links, TRUE)
IterFetchSaveFails == \E links \in LinkLists : IterFetch("ok", links, FALSE)
IterFetchNon200 == IterFetch("non200", <<>>, TRUE)
IterFetchRaises == IterFetch("raise", <<>>, TRUE)

\* the while loop of one seed ends; crawl() goes on to the next seed or to
\* save_discoveries
LoopExit ==
    /\ cpc \in {"loop1", "loop2"}
    /\ ~LoopContinues(to_visit)
    /\ drained' = IF to_visit = <<>> THEN drained \cup {SectionOf(cpc)} ELSE drained
    /\ cpc' = IF cpc = "loop1" THEN "seed2" ELSE "save"
    /\ UNCHANGED <<storeVars, visited_urls, to_visit, pdf_urls,
                   arrivals, seeded, preexisting, owed, prevRun, lastPop, lastFetch,
                   fetchCount, written, failedFetch>>
    /\ UNCHANGED outsideCrawler

\* save_discoveries: one 'discovery' row whose metadata holds the PDF list,
\* unless the insert raises (logged).  The counts and the program page list
\* of the summary are left out: nothing reads them.
SaveDiscoveries ==
    /\ cpc = "save"
    /\ \E ok \in BOOLEAN :
          discoveryJobs' =
              IF ok
              THEN Append(discoveryJobs,
                          [pdf_urls |-> pdf_urls])
              ELSE discoveryJobs
    /\ cpc' = "done"
    /\ UNCHANGED <<max_depth, site, rawPages, rawLinks, run, relinked, visited_urls,
                   to_visit, pdf_urls, histVars>>
    /\ UNCHANGED outsideCrawler

(***************************************************************************)
(* FSADataPipeline                                                         *)
(***************************************************************************)
Tiers == 1..3
Finished == {"skipped", "ok", "failed"}
Terminal == {"completed", "failed", "interrupted"}
NoJob == [status |-> "none", completed_at |-> FALSE, error_log |-> FALSE]

\* mutant of CanStart: the tiers before are started but not awaited
CanStartUnawaited(n) ==
    /\ tstate[n] = "pending"
    /\ \A m \in Tiers : m < n => tstate[m] /= "pending"

\* run(): await self.run_tier1(); await self.run_tier2(); await self.run_tier3()
\* a tier is entered when the awaits before it have returned
CanStart(n) ==
    /\ tstate[n] = "pending"
    /\ \A m \in Tiers : m < n => tstate[m] \in Finished

\* mutant of AfterTierException: the tier re-raises to run()
RaiseToRun(pc) == "except_exc"

\* run_tierN: except Exception as e: logger.error(...) -- the exception stops
\* at the tier, run() goes on
AfterTierException(pc) == pc

\* run_tier2: process_discovered_pages() is awaited after run_discovery_crawler()
CanExtract(phase) == phase = "crawled"

\* initialize_database: db.connect(), then the job row is inserted as
\* 'running'; either call may raise, which initialize_database re-raises
InitializeDatabase ==
    /\ ppc = "init"
    /\ \E outcome \in {"ok", "connect_fails", "insert_fails"} :
          /\ conn' = (outcome /= "connect_fails")
          /\ job_id' = (outcome = "ok")
          /\ job' = IF outcome = "ok"
                    THEN [status |-> "running", completed_at |-> FALSE,
                          error_log |-> FALSE]
                    ELSE job
          /\ ppc' = IF outcome = "ok" THEN "tiers" ELSE "except_exc"
    /\ UNCHANGED <<enable, tstate, t2phase, statusWrites, t2log>>
    /\ UNCHANGED sigintAt
    /\ UNCHANGED outsidePipeline

\* run_tierN with the tier disabled: logged, return
TierSkip(n) ==
    /\ ppc = "tiers"
    /\ CanStart(n)
    /\ ~enable[n]
    /\ tstate' = [tstate EXCEPT ![n] = "skipped"]
    /\ UNCHANGED <<enable, ppc, t2phase, job_id, job, conn, statusWrites, t2log>>
    /\ UNCHANGED sigintAt
    /\ UNCHANGED outsidePipeline

\* run_tierN enters its try block
TierBegin(n) ==
    /\ ppc = "tiers"
    /\ CanStart(n)
    /\ enable[n]
    /\ tstate' = [tstate EXCEPT ![n] = "active"]
    /\ t2phase' = IF n = 2 THEN "discovery" ELSE t2phase
    /\ t2log' = IF n = 2 THEN Append(t2log, "crawl_start") ELSE t2log
    /\ UNCHANGED <<enable, ppc, job_id, job, conn, statusWrites>>
    /\ UNCHANGED sigintAt
    /\ UNCHANGED outsidePipeline

\* run_tier1 / run_tier3: the awaited call returns or raises an Exception
TierEnd(n, ok) ==
    /\ n \in {1, 3}
    /\ ppc = "tiers"
    /\ tstate[n] = "active"
    /\ tstate' = [tstate EXCEPT ![n] = IF ok THEN "ok" ELSE "failed"]
    /\ ppc' = IF ok THEN ppc ELSE AfterTierException(ppc)
    /\ UNCHANGED <<enable, t2phase, job_id, job, conn, statusWrites, t2log>>
    /\ UNCHANGED sigintAt
    /\ UNCHANGED outsidePipeline

\* run_tier2: run_discovery_crawler() returns or raises
DiscoveryEnd(ok) ==
    /\ ppc = "tiers"
    /\ tstate[2] = "active"
    /\ t2phase = "discovery"
    /\ t2log' = Append(t2log, IF ok THEN "crawl_return" ELSE "crawl_raise")
    /\ t2phase' = IF ok THEN "crawled" ELSE "none"
    /\ tstate' = IF ok THEN tstate ELSE [tstate EXCEPT ![2] = "failed"]
    /\ ppc' = IF ok THEN ppc ELSE AfterTierException(ppc)
    /\ UNCHANGED <<enable, job_id, job, conn, statusWrites>>
    /\ UNCHANGED sigintAt
    /\ UNCHANGED outsidePipeline

\* run_tier2: process_discovered_pages() is called
ExtractionBegin ==
    /\ ppc = "tiers"
    /\ tstate[2] = "active"
    /\ CanExtract(t2phase)
    /\ t2phase' = "extraction"
    /\ t2log' = Append(t2log, "extract_start")
    /\ UNCHANGED <<enable, ppc, tstate, job_id, job, conn, statusWrites>>
    /\ UNCHANGED sigintAt
    /\ UNCHANGED outsidePipeline

\* run_tier2: process_discovered_pages() returns or raises
ExtractionEnd(ok) ==
    /\ ppc = "tiers"
    /\ tstate[2] = "active"
    /\ t2phase = "extraction"
    /\ t2log' = Append(t2log, IF ok THEN "extract_return" ELSE "extract_raise")
    /\ t2phase' = "none"
    /\ tstate' = [tstate EXCEPT ![2] = IF ok THEN "ok" ELSE "failed"]
    /\ ppc' = IF ok THEN ppc ELSE AfterTierException(ppc)
    /\ UNCHANGED <<enable, job_id, job, conn, statusWrites>>
    /\ UNCHANGED sigintAt
    /\ UNCHANGED outsidePipeline

\* analyze_results: run_data_analysis() returns, or raises and is logged
AnalyzeResults ==
    /\ ppc = "tiers"
    /\ \A n \in Tiers : tstate[n] \in Finished
    /\ ppc' = "finalize"
    /\ UNCHANGED <<enable, tstate, t2phase, job_id, job, conn, statusWrites, t2log>>
    /\ UNCHANGED sigintAt
    /\ UNCHANGED outsidePipeline

\* finalize, first half: the job row is set to 'completed' with completed_at,
\* unless db.update raises (logged)
FinalizeUpdate ==
    /\ ppc = "finalize"
    /\ \E ok \in BOOLEAN :
          IF job_id /\ ok
          THEN /\ job' = [job EXCEPT !.status = "completed", !.completed_at = TRUE]
               /\ statusWrites' = statusWrites + 1
          ELSE UNCHANGED <<job, statusWrites>>
    /\ ppc' = "close"
    /\ UNCHANGED <<enable, tstate, t2phase, job_id, conn, t2log>>
    /\ UNCHANGED sigintAt
    /\ UNCHANGED outsidePipeline

\* finalize, second half: db.close() and the last log lines; a raise here is
\* not caught in finalize and reaches the handlers of run()
FinalizeClose ==
    /\ ppc = "close"
    /\ \E ok \in BOOLEAN :
          /\ conn' = IF ok THEN FALSE ELSE conn
          /\ ppc' = IF ok THEN "returned" ELSE "except_exc"
    /\ UNCHANGED <<enable, tstate, t2phase, job_id, job, statusWrites, t2log>>
    /\ UNCHANGED sigintAt
    /\ UNCHANGED outsidePipeline

\* the interrupt signal reaches run() while its own code is executing (a
\* synchronous database call, parsing, logging): KeyboardInterrupt is raised
\* there; except Exception in the tier does not catch it, it reaches
\* except KeyboardInterrupt of run()
KeyboardInterrupt ==
    /\ ppc \in {"init", "tiers", "finalize", "close"}
    /\ tstate' = [n \in Tiers |-> IF tstate[n] = "active" THEN "interrupted"
                                  ELSE tstate[n]]
    /\ t2phase' = "none"
    /\ ppc' = "except_kbi"
    /\ sigintAt' = job.status
    /\ UNCHANGED <<enable, job_id, job, conn, statusWrites, t2log>>
    /\ UNCHANGED outsidePipeline

\* the interrupt signal reaches a run() that is suspended at an await inside a
\* tier: asyncio cancels the main task, CancelledError is raised at the await;
\* it is a BaseException, so neither except Exception of the tier nor
\* except KeyboardInterrupt / except Exception of run() catches it, and run()
\* is left without an UPDATE and without db.close()
Cancel ==
    /\ ppc = "tiers"
    /\ \E n \in Tiers : tstate[n] = "active"
    /\ tstate' = [n \in Tiers |-> IF tstate[n] = "active" THEN "interrupted"
                                  ELSE tstate[n]]
    /\ t2phase' = "none"
    /\ ppc' = "cancelled"
    /\ sigintAt' = job.status
    /\ UNCHANGED <<enable, job_id, job, conn, statusWrites, t2log>>
    /\ UNCHANGED outsidePipeline

\* run(): except KeyboardInterrupt -- the row is set to 'interrupted' when
\* job_id is set, db.close(), run() returns; db.update may raise, and then
\* the exception leaves run()
ExceptKeyboardInterrupt ==
    /\ ppc = "except_kbi"
    /\ \E ok \in BOOLEAN :
          IF job_id
          THEN IF ok
               THEN /\ job' = [job EXCEPT !.status = "interrupted"]
                    /\ statusWrites' = statusWrites + 1
                    /\ conn' = FALSE
                    /\ ppc' = "returned"
               ELSE /\ ppc' = "raised"
                    /\ UNCHANGED <<job, statusWrites, conn>>
          ELSE /\ conn' = FALSE
               /\ ppc' = "returned"
               /\ UNCHANGED <<job, statusWrites>>
    /\ UNCHANGED <<enable, tstate, t2phase, job_id, t2log>>
    /\ UNCHANGED sigintAt
    /\ UNCHANGED outsidePipeline

\* run(): except Exception -- the row is set to 'failed' with error_log when
\* job_id is set, db.close(), raise
ExceptException ==
    /\ ppc = "except_exc"
    /\ \E ok \in BOOLEAN :
          IF job_id
          THEN IF ok
               THEN /\ job' = [job EXCEPT !.status = "failed", !.error_log = TRUE]
                    /\ statusWrites' = statusWrites + 1
                    /\ conn' = FALSE
               ELSE UNCHANGED <<job, statusWrites, conn>>
          ELSE /\ conn' = FALSE
               /\ UNCHANGED <<job, statusWrites>>
    /\ ppc' = "raised"
    /\ UNCHANGED <<enable, tstate, t2phase, job_id, t2log>>
    /\ UNCHANGED sigintAt
    /\ UNCHANGED outsidePipeline

PipeInit ==
    /\ enable \in [Tiers -> BOOLEAN]
    /\ ppc = "init"
    /\ tstate = [n \in Tiers |-> "pending"]
    /\ t2phase = "none"
    /\ job_id = FALSE
    /\ job = NoJob
    /\ conn = FALSE
    /\ statusWrites = 0
    /\ t2log = <<>>
    /\ sigintAt = "never"
    \* no crawler has been constructed
    /\ max_depth = 0
    /\ site = [u \in URLS |-> "unknown"]
    /\ rawPages = {}
    /\ rawLinks = [u \in URLS |-> {}]
    /\ discoveryJobs = <<>>
    /\ run = 0
    /\ relinked = FALSE
    /\ cpc = "idle"
    /\ visited_urls = {}
    /\ to_visit = <<>>
    /\ pdf_urls = {}
    /\ arrivals = 0
    /\ seeded = "none"
    /\ preexisting = {}
    /\ owed = {}
    /\ prevRun = "none"
    /\ lastPop = NoEntry
    /\ lastFetch = NoFetch
    /\ fetchCount = [u \in URLS |-> 0]
    /\ written = {}
    /\ failedFetch = {}
    /\ drained = {}
    \* the extractor has no page
    /\ page = None
    /\ xpc = "idle"
    /\ program_data = None
    \* process_pdf has no file
    /\ PDFPLUMBER_AVAILABLE = TRUE
    /\ CAMELOT_AVAILABLE = TRUE
    /\ pdf = None
    /\ fpc = "idle"
    /\ result = None
    \* no PDF batch has run
    /\ max_concurrent_requests = 1
    /\ proc = 0
    /\ hash_seed = 0
    /\ files = {}
    /\ documents = {}
    /\ task = [u \in PdfUrls |-> "idle"]
    /\ permits = 0
    /\ failed_extractions = {}
    /\ urlOutcome = [u \in PdfUrls |-> "none"]
    /\ stored = {}
    /\ refetched = {}
    \* the tier-1 harvesters have not started
    /\ nass_api_key = TRUE
    /\ apc = "nass"
    /\ calls = 0
    /\ pending = FALSE
    /\ all_data = 0
    /\ rows = [h \in {"nass", "ewg"} |-> 0]
    /\ undelayed = FALSE
    /\ backToBack = FALSE
    \* no extraction run has started
    /\ nulls_distinct = TRUE
    /\ raw_html = [u \in {ProgramPages[i] : i \in DOMAIN ProgramPages} |-> <<>>]
    /\ upc = "pages"
    /\ pass = 1
    /\ cursor = 1
    /\ programs = <<>>
    /\ extracted = None
    /\ last_upsert = None
    \* tier 3 has not read the discovery jobs
    /\ tpc = "query"
    /\ tier_run = 1
    /\ pdf_url_rows = <<>>
    /\ document_rows = <<>>
    /\ handled = [u \in PdfUrls |-> 0]
    /\ first_download = [u \in PdfUrls |-> 0]

PipeNext ==
    \/ InitializeDatabase
    \/ \E n \in Tiers : TierSkip(n)
    \/ \E n \in Tiers : TierBegin(n)
    \/ \E n \in {1, 3}, ok \in BOOLEAN : TierEnd(n, ok)
    \/ \E ok \in BOOLEAN : DiscoveryEnd(ok)
    \/ ExtractionBegin
    \/ \E ok \in BOOLEAN : ExtractionEnd(ok)
    \/ AnalyzeResults
    \/ FinalizeUpdate
    \/ FinalizeClose
    \/ KeyboardInterrupt
    \/ Cancel
    \/ ExceptKeyboardInterrupt
    \/ ExceptException

CrawlInit ==
    /\ max_depth \in 0..MaxDepthCfg
    /\ site = [u \in URLS |-> "unknown"]
    /\ rawPages = {}
    /\ rawLinks = [u \in URLS |-> {}]
    /\ discoveryJobs = <<>>
    /\ run = 0
    /\ relinked = FALSE
    /\ cpc = "idle"
    /\ visited_urls = {}
    /\ to_visit = <<>>
    /\ pdf_urls = {}
    /\ arrivals = 0
    /\ seeded = "none"
    /\ preexisting = {}
    /\ owed = {}
    /\ prevRun = "none"
    /\ lastPop = NoEntry
    /\ lastFetch = NoFetch
    /\ fetchCount = [u \in URLS |-> 0]
    /\ written = {}
    /\ failedFetch = {}
    /\ drained = {}
    \* the orchestrator has not started
    /\ enable = [n \in Tiers |-> TRUE]
    /\ ppc = "init"
    /\ tstate = [n \in Tiers |-> "pending"]
    /\ t2phase = "none"
    /\ job_id = FALSE
    /\ job = NoJob
    /\ conn = FALSE
    /\ statusWrites = 0
    /\ t2log = <<>>
    /\ sigintAt = "never"
    \* the extractor has no page
    /\ page = None
    /\ xpc = "idle"
    /\ program_data = None
    \* process_pdf has no file
    /\ PDFPLUMBER_AVAILABLE = TRUE
    /\ CAMELOT_AVAILABLE = TRUE
    /\ pdf = None
    /\ fpc = "idle"
    /\ result = None
    \* no PDF batch has run
    /\ max_concurrent_requests = 1
    /\ proc = 0
    /\ hash_seed = 0
    /\ files = {}
    /\ documents = {}
    /\ task = [u \in PdfUrls |-> "idle"]
    /\ permits = 0
    /\ failed_extractions = {}
    /\ urlOutcome = [u \in PdfUrls |-> "none"]
    /\ stored = {}
    /\ refetched = {}
    \* the tier-1 harvesters have not started
    /\ nass_api_key = TRUE
    /\ apc = "nass"
    /\ calls = 0
    /\ pending = FALSE
    /\ all_data = 0
    /\ rows = [h \in {"nass", "ewg"} |-> 0]
    /\ undelayed = FALSE
    /\ backToBack = FALSE
    \* no extraction run has started
    /\ nulls_distinct = TRUE
    /\ raw_html = [u \in {ProgramPages[i] : i \in DOMAIN ProgramPages} |-> <<>>]
    /\ upc = "pages"
    /\ pass = 1
    /\ cursor = 1
    /\ programs = <<>>
    /\ extracted = None
    /\ last_upsert = None
    \* tier 3 has not read the discovery jobs
    /\ tpc = "query"
    /\ tier_run = 1
    /\ pdf_url_rows = <<>>
    /\ document_rows = <<>>
    /\ handled = [u \in PdfUrls |-> 0]
    /\ first_download = [u \in PdfUrls |-> 0]

CrawlNext ==
    \/ Construct
    \/ PushSeed
    \/ IterDrop
    \/ IterBrowserFails
    \/ IterFetchOk
    \/ IterFetchSaveFails
    \/ IterFetchNon200
    \/ IterFetchRaises
    \/ LoopExit
    \/ SaveDiscoveries

SpecCrawl == CrawlInit /\ [][CrawlNext]_vars

SpecPipe == PipeInit /\ [][PipeNext]_vars

(***************************************************************************)
(* ProgramExtractor                                                        *)
(*                                                                         *)
(* A page text is a sequence of tokens (words and phrases separated by     *)
(* white space); a regular expression of the extractor is the sequence of  *)
(* the token sets it accepts, and re.findall scans the text from the left  *)
(* for non-overlapping matches.                                            *)
(***************************************************************************)
MaxTokens == 4
MaxDeadlines == 2

AmountTokens == {"$4.00", "$9.50"}
TextTokens == AmountTokens \cup
              {"to", "per hundredweight (cwt)", "50% of losses"}

\* float(match.replace('$', '').replace(',', '')), in cents
Amount(tok) == IF tok = "$4.00" THEN 400 ELSE 950

\* PAYMENT_PATTERNS, in the order of the list
PAYMENT_PATTERNS == <<
    <<AmountTokens, {"per acre", "/ acre"}>>,
    <<AmountTokens, {"per head", "/ head"}>>,
    <<AmountTokens, {"per bushel", "/ bushel"}>>,
    <<{"up to", "maximum of"}, AmountTokens>>,
    <<{"50% of losses"}>>,
    <<{"payment rate", "payment rate is", "payment rates are",
       "payment rate of"}, AmountTokens>>,
    <<AmountTokens, {"to"}, AmountTokens>>,
    <<{"between"}, AmountTokens, {"and"}, AmountTokens>> >>

\* the pattern matches the text at position i
MatchesAt(pattern, text, i) ==
    /\ i + Len(pattern) - 1 <= Len(text)
    /\ \A k \in 1..Len(pattern) : text[i + k - 1] \in pattern[k]

\* re.findall(pattern, text, re.IGNORECASE) from position i on: the matched
\* substrings, left to right, a match starting after the one before it ends
RECURSIVE FindAll(_, _, _)
FindAll(pattern, text, i) ==
    IF i > Len(text) THEN <<>>
    ELSE IF MatchesAt(pattern, text, i)
         THEN <<SubSeq(text, i, i + Len(pattern) - 1)>>
              \o FindAll(pattern, text, i + Len(pattern))
         ELSE FindAll(pattern, text, i + 1)

\* for pattern in self.PAYMENT_PATTERNS: all_matches.extend(matches)
RECURSIVE AllMatches(_, _)
AllMatches(text, n) ==
    IF n > Len(PAYMENT_PATTERNS) THEN <<>>
    ELSE FindAll(PAYMENT_PATTERNS[n], text, 1) \o AllMatches(text, n + 1)

\* ' '.join(strings): the tokens of all the strings in one sequence
RECURSIVE Join(_)
Join(strings) ==
    IF strings = <<>> THEN <<>> ELSE Head(strings) \o Join(Tail(strings))

\* _extract_amounts: every dollar amount of every matched string
_extract_amounts(payment_strings) ==
    LET combined == Join(payment_strings)
    IN {Amount(combined[i]) : i \in {j \in 1..Len(combined) :
                                        combined[j] \in AmountTokens}}

SetMin(S) == CHOOSE x \in S : \A y \in S : x <= y
SetMax(S) == CHOOSE x \in S : \A y \in S : x >= y

\* unit in combined: the keyword is a substring of a matched token
Mentions(tok, unit) ==
    \/ unit = "acre" /\ tok \in {"per acre", "/ acre"}
    \/ unit = "head" /\ tok \in {"per head", "/ head"}
    \/ unit = "bushel" /\ tok \in {"per bushel", "/ bushel"}
    \/ unit = "cwt" /\ tok = "per hundredweight (cwt)"
    \/ unit = "%" /\ tok = "50% of losses"

units == <<"acre", "head", "bushel", "cwt", "ton", "animal">>

\* _extract_payment_unit: the first unit keyword found in the matched strings
\* (the text around them is not looked at), else 'percentage', else 'flat_rate'
_extract_payment_unit(payment_strings) ==
    LET combined == Join(payment_strings)
        Found(u) == \E i \in 1..Len(combined) : Mentions(combined[i], u)
        hits == {n \in 1..Len(units) : Found(units[n])}
    IN IF hits /= {} THEN Some("per " \o units[SetMin(hits)])
       ELSE IF Found("%") THEN Some("percentage")
       ELSE Some("flat_rate")

\* extract_payment_info
extract_payment_info(text) ==
    LET all_matches == AllMatches(text, 1)
        amounts == _extract_amounts(all_matches)
    IN IF all_matches = <<>>
       THEN [payment_info_raw |-> None, payment_min |-> None,
             payment_max |-> None, payment_unit |-> None,
             payment_range_text |-> None]
       ELSE [payment_info_raw |-> Some(all_matches),
             payment_min |-> IF amounts = {} THEN None ELSE Some(SetMin(amounts)),
             payment_max |-> IF amounts = {} THEN None ELSE Some(SetMax(amounts)),
             payment_unit |-> _extract_payment_unit(all_matches),
             payment_range_text |-> Some(all_matches[1])]

\* date_parser.parse(deadline_str, fuzzy=True): the date as yyyymmdd, or None
\* when the parser raises ValueError (April has 30 days)
DeadlineStrings == {"March 1, 2024", "June 30, 2024", "April 31, 2024"}
Parse(deadline_str) ==
    CASE deadline_str = "March 1, 2024" -> Some(20240301)
      [] deadline_str = "June 30, 2024" -> Some(20240630)
      [] OTHER -> None

\* parsed_dates, in the order of the matched strings
RECURSIVE ParsedDates(_)
ParsedDates(deadlines) ==
    IF deadlines = <<>> THEN <<>>
    ELSE Parse(Head(deadlines)) \o ParsedDates(Tail(deadlines))

\* list.sort(): ascending
RECURSIVE Insert(_, _)
Insert(x, sorted) ==
    IF sorted = <<>> THEN <<x>>
    ELSE IF x <= Head(sorted) THEN <<x>> \o sorted
    ELSE <<Head(sorted)>> \o Insert(x, Tail(sorted))

RECURSIVE Sort(_)
Sort(q) == IF q = <<>> THEN <<>> ELSE Insert(Head(q), Sort(Tail(q)))

\* mutant of ApplicationStart: the first date also when it is the only one
ApplicationStartAlways(parsed_dates) == Some(parsed_dates[1])

\* parsed_dates[0].date() if len(parsed_dates) > 1 else None
ApplicationStart(parsed_dates) ==
    IF Len(parsed_dates) > 1 THEN Some(parsed_dates[1]) ELSE None

\* extract_deadlines; deadlines are the strings the DEADLINE_PATTERNS captured
extract_deadlines(deadlines) ==
    LET parsed_dates == Sort(ParsedDates(deadlines))
    IN IF deadlines = <<>>
       THEN [application_start |-> None, application_end |-> None,
             deadline_text |-> None]
       ELSE IF parsed_dates = <<>>
       THEN [application_start |-> None, application_end |-> None,
             deadline_text |-> Some(deadlines)]
       ELSE [application_start |-> ApplicationStart(parsed_dates),
             application_end |-> Some(parsed_dates[Len(parsed_dates)]),
             deadline_text |-> Some(deadlines)]

\* A Python float between 0 and 2 is the number (hi * 2^28 + lo) / 2^56; the
\* doubles of one binade are the multiples of its spacing (1, 2, 4, 8 or 16
\* of these units from 1/16 up to 2), and every number below 1/16 that occurs
\* here is exact.
Limb == 2^28
Float(hi, lo) == [hi |-> hi, lo |-> lo]
Spacing(hi) ==
    IF hi >= Limb THEN 16
    ELSE IF 2 * hi >= Limb THEN 8
    ELSE IF 4 * hi >= Limb THEN 4
    ELSE IF 8 * hi >= Limb THEN 2
    ELSE 1

\* a + b of two floats: the exact sum, rounded to the nearest double of its
\* binade, a tie to the one with the even mantissa
FloatAdd(a, b) ==
    LET n == a.lo + b.lo
        lo == n % Limb
        hi == a.hi + b.hi + n \div Limb
        u == Spacing(hi)
        r == lo % u
        down == lo - r
        up == 2 * r > u \/ (2 * r = u /\ (down \div u) % 2 = 1)
        rounded == IF up THEN down + u ELSE down
    IN Float(hi + rounded \div Limb, rounded % Limb)

FloatLeq(a, b) == a.hi < b.hi \/ (a.hi = b.hi /\ a.lo <= b.lo)
FloatMin(a, b) == IF FloatLeq(a, b) THEN a ELSE b

\* the literals of calculate_confidence, as the doubles Python reads them as
Zero == Float(0, 0)
One == Float(Limb, 0)
NameWeight == Float(53687091, 53687092)
DescriptionWeight == Float(53687091, 53687092)
PaymentWeight == Float(80530636, 214748364)
EligibilityWeight == Float(53687091, 53687092)
DeadlineWeight == Float(26843545, 161061274)

\* the five conditions of calculate_confidence; a description is its length
HasName(d) == d.program_name /= ""
HasDescription(d) == d.description /= None /\ d.description[1] > 50
HasPayment(d) ==
    \/ d.payment_min /= None /\ d.payment_min[1] /= 0
    \/ d.payment_info_raw /= None
HasEligibility(d) == d.eligibility_raw /= None
HasDeadline(d) == d.application_end /= None \/ d.deadline_text /= None

\* calculate_confidence: score = 0.0, five conditional score += w,
\* return min(score, 1.0)
calculate_confidence(d) ==
    LET s1 == IF HasName(d) THEN FloatAdd(Zero, NameWeight) ELSE Zero
        s2 == IF HasDescription(d) THEN FloatAdd(s1, DescriptionWeight) ELSE s1
        s3 == IF HasPayment(d) THEN FloatAdd(s2, PaymentWeight) ELSE s2
        s4 == IF HasEligibility(d) THEN FloatAdd(s3, EligibilityWeight) ELSE s3
        s5 == IF HasDeadline(d) THEN FloatAdd(s4, DeadlineWeight) ELSE s4
    IN FloatMin(s5, One)

\* the pages extract_program_data is given: the name found in h1, title or
\* URL (it may be empty), the description as its length (a meta description
\* of any length or a paragraph of more than 100 characters), the eligibility
\* text, the tokens of the page text and the strings its deadline patterns
\* capture
SeqsUpTo(S, n) == UNION {[1..k -> S] : k \in 0..n}
Pages ==
    [program_name : {"", "Livestock Forage Program"},
     description : {None, Some(40), Some(120)},
     eligibility_raw : {None, Some("eligible producers")},
     text : SeqsUpTo(TextTokens, MaxTokens),
     deadlines : SeqsUpTo(DeadlineStrings, MaxDeadlines)]

\* extract_program_data: the fields, payment info, deadlines, then the score
extract_program_data(pg) ==
    LET fields == [program_name |-> pg.program_name,
                   description |-> pg.description,
                   eligibility_raw |-> pg.eligibility_raw]
        found == fields @@ extract_payment_info(pg.text)
                        @@ extract_deadlines(pg.deadlines)
    IN found @@ [confidence_score |-> calculate_confidence(found)]

ExtractProgramData ==
    /\ xpc = "page"
    /\ program_data' = extract_program_data(page)
    /\ xpc' = "extracted"
    /\ UNCHANGED page
    /\ UNCHANGED outsideExtractor

ExtractInit ==
    /\ page \in Pages
    /\ xpc = "page"
    /\ program_data = None
    \* no crawler has been constructed
    /\ max_depth = 0
    /\ site = [u \in URLS |-> "unknown"]
    /\ rawPages = {}
    /\ rawLinks = [u \in URLS |-> {}]
    /\ discoveryJobs = <<>>
    /\ run = 0
    /\ relinked = FALSE
    /\ cpc = "idle"
    /\ visited_urls = {}
    /\ to_visit = <<>>
    /\ pdf_urls = {}
    /\ arrivals = 0
    /\ seeded = "none"
    /\ preexisting = {}
    /\ owed = {}
    /\ prevRun = "none"
    /\ lastPop = NoEntry
    /\ lastFetch = NoFetch
    /\ fetchCount = [u \in URLS |-> 0]
    /\ written = {}
    /\ failedFetch = {}
    /\ drained = {}
    \* the orchestrator has not started
    /\ enable = [n \in Tiers |-> TRUE]
    /\ ppc = "init"
    /\ tstate = [n \in Tiers |-> "pending"]
    /\ t2phase = "none"
    /\ job_id = FALSE
    /\ job = NoJob
    /\ conn = FALSE
    /\ statusWrites = 0
    /\ t2log = <<>>
    /\ sigintAt = "never"
    \* process_pdf has no file
    /\ PDFPLUMBER_AVAILABLE = TRUE
    /\ CAMELOT_AVAILABLE = TRUE
    /\ pdf = None
    /\ fpc = "idle"
    /\ result = None
    \* no PDF batch has run
    /\ max_concurrent_requests = 1
    /\ proc = 0
    /\ hash_seed = 0
    /\ files = {}
    /\ documents = {}
    /\ task = [u \in PdfUrls |-> "idle"]
    /\ permits = 0
    /\ failed_extractions = {}
    /\ urlOutcome = [u \in PdfUrls |-> "none"]
    /\ stored = {}
    /\ refetched = {}
    \* the tier-1 harvesters have not started
    /\ nass_api_key = TRUE
    /\ apc = "nass"
    /\ calls = 0
    /\ pending = FALSE
    /\ all_data = 0
    /\ rows = [h \in {"nass", "ewg"} |-> 0]
    /\ undelayed = FALSE
    /\ backToBack = FALSE
    \* no extraction run has started
    /\ nulls_distinct = TRUE
    /\ raw_html = [u \in {ProgramPages[i] : i \in DOMAIN ProgramPages} |-> <<>>]
    /\ upc = "pages"
    /\ pass = 1
    /\ cursor = 1
    /\ programs = <<>>
    /\ extracted = None
    /\ last_upsert = None
    \* tier 3 has not read the discovery jobs
    /\ tpc = "query"
    /\ tier_run = 1
    /\ pdf_url_rows = <<>>
    /\ document_rows = <<>>
    /\ handled = [u \in PdfUrls |-> 0]
    /\ first_download = [u \in PdfUrls |-> 0]

ExtractNext == ExtractProgramData

SpecExtract == ExtractInit /\ [][ExtractNext]_vars

(***************************************************************************)
(* PDFProcessor.process_pdf                                                *)
(*                                                                         *)
(* A PDF file is its pages; of a page the model keeps whether pdfplumber   *)
(* finds text on it, whether pdfplumber finds a table on it and whether    *)
(* camelot finds a lattice table on it.  The text of a result is the list  *)
(* of the pages that gave text ('' is the empty list).                     *)
(***************************************************************************)
MaxPages == 2

PdfPage == [text : BOOLEAN, tables : BOOLEAN, lattice : BOOLEAN]
PdfFiles == [pages : SeqsUpTo(PdfPage, MaxPages),
             unreadable : BOOLEAN]    \* pdfplumber.open raises on this file

\* the page numbers, from n on, at which the sequence of flags holds TRUE
RECURSIVE PagesWhere(_, _)
PagesWhere(flags, n) ==
    IF n > Len(flags) THEN <<>>
    ELSE (IF flags[n] THEN <<n>> ELSE <<>>) \o PagesWhere(flags, n + 1)

\* result['success'] = bool(result['text'])
Success(text) == text /= <<>>

\* _extract_with_pdfplumber (called on a file it can open)
_extract_with_pdfplumber(file) ==
    LET text_pages ==
            PagesWhere([n \in 1..Len(file.pages) |-> file.pages[n].text], 1)
        table_pages ==
            PagesWhere([n \in 1..Len(file.pages) |-> file.pages[n].tables], 1)
    IN [text |-> text_pages,
        tables |-> [i \in 1..Len(table_pages) |->
                       [page |-> table_pages[i], table_num |-> 1]],
        extraction_method |-> Some("pdfplumber"),
        success |-> Success(text_pages),
        page_count |-> Len(file.pages)]

\* _extract_tables_with_camelot: the lattice tables, numbered; an error inside
\* is caught there and leaves the list as it is
_extract_tables_with_camelot(file) ==
    LET table_pages ==
            PagesWhere([n \in 1..Len(file.pages) |-> file.pages[n].lattice], 1)
    IN [i \in 1..Len(table_pages) |-> [table_num |-> i, page |-> table_pages[i]]]

\* mutant of Fallback: the tables are replaced, the method is left as it was
FallbackKeepsMethod(res, tables) == [res EXCEPT !.tables = tables]

\* result['tables'] = tables; result['extraction_method'] = 'camelot'
Fallback(res, tables) ==
    [res EXCEPT !.tables = tables, !.extraction_method = Some("camelot")]

\* process_pdf
process_pdf(file, plumber, camelot) ==
    LET initial == [text |-> <<>>, tables |-> <<>>, extraction_method |-> None,
                    success |-> FALSE, page_count |-> 0]
        primary == IF plumber /\ ~file.unreadable
                   THEN _extract_with_pdfplumber(file)
                   ELSE initial
    IN IF plumber /\ ~file.unreadable /\ primary.success THEN primary
       ELSE IF camelot
            THEN Fallback(primary, _extract_tables_with_camelot(file))
            ELSE primary

ProcessPdf ==
    /\ fpc = "file"
    /\ result' = process_pdf(pdf, PDFPLUMBER_AVAILABLE, CAMELOT_AVAILABLE)
    /\ fpc' = "processed"
    /\ UNCHANGED <<PDFPLUMBER_AVAILABLE, CAMELOT_AVAILABLE, pdf>>
    /\ UNCHANGED outsidePdfFile

PdfFileInit ==
    /\ PDFPLUMBER_AVAILABLE \in BOOLEAN
    /\ CAMELOT_AVAILABLE \in BOOLEAN
    /\ pdf \in PdfFiles
    /\ fpc = "file"
    /\ result = None
    \* no crawler has been constructed
    /\ max_depth = 0
    /\ site = [u \in URLS |-> "unknown"]
    /\ rawPages = {}
    /\ rawLinks = [u \in URLS |-> {}]
    /\ discoveryJobs = <<>>
    /\ run = 0
    /\ relinked = FALSE
    /\ cpc = "idle"
    /\ visited_urls = {}
    /\ to_visit = <<>>
    /\ pdf_urls = {}
    /\ arrivals = 0
    /\ seeded = "none"
    /\ preexisting = {}
    /\ owed = {}
    /\ prevRun = "none"
    /\ lastPop = NoEntry
    /\ lastFetch = NoFetch
    /\ fetchCount = [u \in URLS |-> 0]
    /\ written = {}
    /\ failedFetch = {}
    /\ drained = {}
    \* the orchestrator has not started
    /\ enable = [n \in Tiers |-> TRUE]
    /\ ppc = "init"
    /\ tstate = [n \in Tiers |-> "pending"]
    /\ t2phase = "none"
    /\ job_id = FALSE
    /\ job = NoJob
    /\ conn = FALSE
    /\ statusWrites = 0
    /\ t2log = <<>>
    /\ sigintAt = "never"
    \* the extractor has no page
    /\ page = None
    /\ xpc = "idle"
    /\ program_data = None
    \* no PDF batch has run
    /\ max_concurrent_requests = 1
    /\ proc = 0
    /\ hash_seed = 0
    /\ files = {}
    /\ documents = {}
    /\ task = [u \in PdfUrls |-> "idle"]
    /\ permits = 0
    /\ failed_extractions = {}
    /\ urlOutcome = [u \in PdfUrls |-> "none"]
    /\ stored = {}
    /\ refetched = {}
    \* the tier-1 harvesters have not started
    /\ nass_api_key = TRUE
    /\ apc = "nass"
    /\ calls = 0
    /\ pending = FALSE
    /\ all_data = 0
    /\ rows = [h \in {"nass", "ewg"} |-> 0]
    /\ undelayed = FALSE
    /\ backToBack = FALSE
    \* no extraction run has started
    /\ nulls_distinct = TRUE
    /\ raw_html = [u \in {ProgramPages[i] : i \in DOMAIN ProgramPages} |-> <<>>]
    /\ upc = "pages"
    /\ pass = 1
    /\ cursor = 1
    /\ programs = <<>>
    /\ extracted = None
    /\ last_upsert = None
    \* tier 3 has not read the discovery jobs
    /\ tpc = "query"
    /\ tier_run = 1
    /\ pdf_url_rows = <<>>
    /\ document_rows = <<>>
    /\ handled = [u \in PdfUrls |-> 0]
    /\ first_download = [u \in PdfUrls |-> 0]

PdfFileNext == ProcessPdf

SpecPdfFile == PdfFileInit /\ [][PdfFileNext]_vars

(***************************************************************************)
(* process_discovered_pdfs: a batch of PDF URLs under a semaphore          *)
(***************************************************************************)
MaxProcs == 2
MaxPermits == 2
MaxSeeds == 2

\* url.split('/')[-1]
LastSegment(url) ==
    IF url \in {"2023/form.pdf", "2024/form.pdf"} THEN "form.pdf" ELSE url

\* filename.endswith('.pdf')
EndsWithPdf(filename) == filename = "form.pdf"

\* download_pdf: the local file name. hash(url) of a string depends on the
\* seed the interpreter drew when the process started; a name taken from the
\* URL carries seed 0
FileName(url, seed) ==
    IF EndsWithPdf(LastSegment(url))
    THEN [stem |-> LastSegment(url), seed |-> 0]
    ELSE [stem |-> url, seed |-> seed]

\* mutant of CanAcquire: the semaphore lets every task in
CanAcquireAlways(value) == TRUE

\* asyncio.Semaphore.acquire returns at once while the value is positive
CanAcquire(value) == value > 0

BatchOver == \A u \in PdfUrls : task[u] \in {"idle", "done"}

\* a Python process runs process_discovered_pdfs: PDFProcessor(), the
\* semaphore, one task per URL of the pdf_urls list, here any list (what the
\* query puts into the list is SelectPdfUrls below)
StartProcess(batch, seed) ==
    /\ proc < MaxProcs
    /\ BatchOver
    /\ proc' = proc + 1
    /\ hash_seed' = seed
    /\ task' = [u \in PdfUrls |-> IF u \in batch THEN "waiting" ELSE "idle"]
    /\ permits' = max_concurrent_requests
    /\ failed_extractions' = {}
    /\ urlOutcome' = [u \in PdfUrls |-> "none"]
    /\ UNCHANGED <<max_concurrent_requests, files, documents, stored, refetched>>
    /\ UNCHANGED outsidePdfBatch

\* async with semaphore, process_pdf_url, download_pdf up to its first await:
\* an existing local file is returned (the delay follows), else the GET is sent
AcquireAndLookUp(u) ==
    /\ task[u] = "waiting"
    /\ CanAcquire(permits)
    /\ permits' = permits - 1
    /\ IF FileName(u, hash_seed) \in files
       THEN /\ task' = [task EXCEPT ![u] = "sleep"]
            /\ urlOutcome' = [urlOutcome EXCEPT ![u] = "reused"]
            /\ UNCHANGED refetched
       ELSE /\ task' = [task EXCEPT ![u] = "download"]
            /\ urlOutcome' = [urlOutcome EXCEPT ![u] = "requested"]
            /\ refetched' = IF u \in stored THEN refetched \cup {u} ELSE refetched
    /\ UNCHANGED <<max_concurrent_requests, proc, hash_seed, files, documents,
                   failed_extractions, stored>>
    /\ UNCHANGED outsidePdfBatch

\* download_pdf, the GET is over: the content is written and the delay starts;
\* or the request failed, download_pdf logs and returns None, process_pdf_url
\* returns False and the permit is released
DownloadEnds(u, ok) ==
    /\ task[u] = "download"
    /\ IF ok
       THEN /\ files' = files \cup {FileName(u, hash_seed)}
            /\ stored' = stored \cup {u}
            /\ task' = [task EXCEPT ![u] = "sleep"]
            /\ urlOutcome' = [urlOutcome EXCEPT ![u] = "downloaded"]
            /\ UNCHANGED permits
       ELSE /\ task' = [task EXCEPT ![u] = "done"]
            /\ urlOutcome' = [urlOutcome EXCEPT ![u] = "download_failed"]
            /\ permits' = permits + 1
            /\ UNCHANGED <<files, stored>>
    /\ UNCHANGED <<max_concurrent_requests, proc, hash_seed, documents,
                   failed_extractions, refetched>>
    /\ UNCHANGED outsidePdfBatch

\* process_pdf_url after the delay: process_pdf, save_to_database (which logs
\* its own failure), return; an exception here is caught by process_pdf_url,
\* which appends the URL to failed_extractions; the permit is released
ProcessAndSave(u, how, saved) ==
    /\ task[u] = "sleep"
    /\ task' = [task EXCEPT ![u] = "done"]
    /\ permits' = permits + 1
    /\ urlOutcome' = [urlOutcome EXCEPT ![u] = how]
    /\ failed_extractions' =
           IF how = "raised" THEN failed_extractions \cup {u}
           ELSE failed_extractions
    /\ documents' = IF how /= "raised" /\ saved THEN documents \cup {u}
                    ELSE documents
    /\ UNCHANGED <<max_concurrent_requests, proc, hash_seed, files, stored,
                   refetched>>
    /\ UNCHANGED outsidePdfBatch

PdfBatchInit ==
    /\ max_concurrent_requests \in 1..MaxPermits
    /\ proc = 0
    /\ hash_seed = 0
    /\ files = {}
    /\ documents = {}
    /\ task = [u \in PdfUrls |-> "idle"]
    /\ permits = 0
    /\ failed_extractions = {}
    /\ urlOutcome = [u \in PdfUrls |-> "none"]
    /\ stored = {}
    /\ refetched = {}
    \* no crawler has been constructed
    /\ max_depth = 0
    /\ site = [u \in URLS |-> "unknown"]
    /\ rawPages = {}
    /\ rawLinks = [u \in URLS |-> {}]
    /\ discoveryJobs = <<>>
    /\ run = 0
    /\ relinked = FALSE
    /\ cpc = "idle"
    /\ visited_urls = {}
    /\ to_visit = <<>>
    /\ pdf_urls = {}
    /\ arrivals = 0
    /\ seeded = "none"
    /\ preexisting = {}
    /\ owed = {}
    /\ prevRun = "none"
    /\ lastPop = NoEntry
    /\ lastFetch = NoFetch
    /\ fetchCount = [u \in URLS |-> 0]
    /\ written = {}
    /\ failedFetch = {}
    /\ drained = {}
    \* the orchestrator has not started
    /\ enable = [n \in Tiers |-> TRUE]
    /\ ppc = "init"
    /\ tstate = [n \in Tiers |-> "pending"]
    /\ t2phase = "none"
    /\ job_id = FALSE
    /\ job = NoJob
    /\ conn = FALSE
    /\ statusWrites = 0
    /\ t2log = <<>>
    /\ sigintAt = "never"
    \* the extractor has no page
    /\ page = None
    /\ xpc = "idle"
    /\ program_data = None
    \* process_pdf has no file
    /\ PDFPLUMBER_AVAILABLE = TRUE
    /\ CAMELOT_AVAILABLE = TRUE
    /\ pdf = None
    /\ fpc = "idle"
    /\ result = None
    \* the tier-1 harvesters have not started
    /\ nass_api_key = TRUE
    /\ apc = "nass"
    /\ calls = 0
    /\ pending = FALSE
    /\ all_data = 0
    /\ rows = [h \in {"nass", "ewg"} |-> 0]
    /\ undelayed = FALSE
    /\ backToBack = FALSE
    \* no extraction run has started
    /\ nulls_distinct = TRUE
    /\ raw_html = [u \in {ProgramPages[i] : i \in DOMAIN ProgramPages} |-> <<>>]
    /\ upc = "pages"
    /\ pass = 1
    /\ cursor = 1
    /\ programs = <<>>
    /\ extracted = None
    /\ last_upsert = None
    \* tier 3 has not read the discovery jobs
    /\ tpc = "query"
    /\ tier_run = 1
    /\ pdf_url_rows = <<>>
    /\ document_rows = <<>>
    /\ handled = [u \in PdfUrls |-> 0]
    /\ first_download = [u \in PdfUrls |-> 0]

PdfBatchNext ==
    \/ \E batch \in SUBSET PdfUrls, seed \in 1..MaxSeeds : StartProcess(batch, seed)
    \/ \E u \in PdfUrls : AcquireAndLookUp(u)
    \/ \E u \in PdfUrls, ok \in BOOLEAN : DownloadEnds(u, ok)
    \/ \E u \in PdfUrls, how \in {"text", "no_text", "raised"}, saved \in BOOLEAN :
          ProcessAndSave(u, how, saved)

SpecPdfBatch == PdfBatchInit /\ [][PdfBatchNext]_vars

\* the event loop runs a task that can run, and a GET ends (timeout=60)
SpecPdfBatchFair == SpecPdfBatch /\ WF_vars(PdfBatchNext)

(***************************************************************************)
(* run_tier1_scrapers: the NASS and EWG harvesters                         *)
(***************************************************************************)
commodities == <<"CORN", "SOYBEANS", "WHEAT", "BARLEY", "SUNFLOWER">>
year_start == 2018
year_end == 2023
Years == year_end - year_start + 1

\* the requests a harvester makes: NASS one per commodity and year, EWG one
\* per year
Requests(h) == IF h = "nass" THEN Len(commodities) * Years ELSE Years

\* fetch_county_data / fetch_state_data: client.get is awaited
Request(h) ==
    /\ apc = h
    /\ ~pending
    /\ calls < Requests(h)
    /\ pending' = TRUE
    /\ calls' = calls + 1
    /\ backToBack' = (backToBack \/ undelayed)
    /\ undelayed' = TRUE
    /\ UNCHANGED <<nass_api_key, apc, all_data, rows>>
    /\ UNCHANGED outsideTier1

\* the response: raise_for_status passes, the records are collected and
\* asyncio.sleep(settings.scrape_delay_seconds) is awaited; or the request or
\* raise_for_status raises and the except branch logs it -- the delay is the
\* last statement of the try block and is skipped. NASS rejects a request
\* that carries no key
Response(h, ok) ==
    /\ apc = h
    /\ pending
    /\ ok => (h = "ewg" \/ nass_api_key)
    /\ pending' = FALSE
    /\ all_data' = IF ok THEN all_data + 1 ELSE all_data
    /\ undelayed' = IF ok THEN FALSE ELSE undelayed
    /\ UNCHANGED <<nass_api_key, apc, calls, rows, backToBack>>
    /\ UNCHANGED outsideTier1

\* return all_data; save_to_database(data): one INSERT per record, a failed
\* one is logged; then the next harvester
Save(h, saved) ==
    /\ apc = h
    /\ ~pending
    /\ calls = Requests(h)
    /\ saved \in 0..all_data
    /\ rows' = [rows EXCEPT ![h] = saved]
    /\ apc' = IF h = "nass" THEN "ewg" ELSE "done"
    /\ calls' = 0
    /\ all_data' = 0
    /\ UNCHANGED <<nass_api_key, pending, undelayed, backToBack>>
    /\ UNCHANGED outsideTier1

Tier1Init ==
    /\ nass_api_key \in BOOLEAN
    /\ apc = "nass"
    /\ calls = 0
    /\ pending = FALSE
    /\ all_data = 0
    /\ rows = [h \in {"nass", "ewg"} |-> 0]
    /\ undelayed = FALSE
    /\ backToBack = FALSE
    \* no crawler has been constructed
    /\ max_depth = 0
    /\ site = [u \in URLS |-> "unknown"]
    /\ rawPages = {}
    /\ rawLinks = [u \in URLS |-> {}]
    /\ discoveryJobs = <<>>
    /\ run = 0
    /\ relinked = FALSE
    /\ cpc = "idle"
    /\ visited_urls = {}
    /\ to_visit = <<>>
    /\ pdf_urls = {}
    /\ arrivals = 0
    /\ seeded = "none"
    /\ preexisting = {}
    /\ owed = {}
    /\ prevRun = "none"
    /\ lastPop = NoEntry
    /\ lastFetch = NoFetch
    /\ fetchCount = [u \in URLS |-> 0]
    /\ written = {}
    /\ failedFetch = {}
    /\ drained = {}
    \* the orchestrator has not started
    /\ enable = [n \in Tiers |-> TRUE]
    /\ ppc = "init"
    /\ tstate = [n \in Tiers |-> "pending"]
    /\ t2phase = "none"
    /\ job_id = FALSE
    /\ job = NoJob
    /\ conn = FALSE
    /\ statusWrites = 0
    /\ t2log = <<>>
    /\ sigintAt = "never"
    \* the extractor has no page
    /\ page = None
    /\ xpc = "idle"
    /\ program_data = None
    \* process_pdf has no file
    /\ PDFPLUMBER_AVAILABLE = TRUE
    /\ CAMELOT_AVAILABLE = TRUE
    /\ pdf = None
    /\ fpc = "idle"
    /\ result = None
    \* no PDF batch has run
    /\ max_concurrent_requests = 1
    /\ proc = 0
    /\ hash_seed = 0
    /\ files = {}
    /\ documents = {}
    /\ task = [u \in PdfUrls |-> "idle"]
    /\ permits = 0
    /\ failed_extractions = {}
    /\ urlOutcome = [u \in PdfUrls |-> "none"]
    /\ stored = {}
    /\ refetched = {}
    \* no extraction run has started
    /\ nulls_distinct = TRUE
    /\ raw_html = [u \in {ProgramPages[i] : i \in DOMAIN ProgramPages} |-> <<>>]
    /\ upc = "pages"
    /\ pass = 1
    /\ cursor = 1
    /\ programs = <<>>
    /\ extracted = None
    /\ last_upsert = None
    \* tier 3 has not read the discovery jobs
    /\ tpc = "query"
    /\ tier_run = 1
    /\ pdf_url_rows = <<>>
    /\ document_rows = <<>>
    /\ handled = [u \in PdfUrls |-> 0]
    /\ first_download = [u \in PdfUrls |-> 0]

Tier1Next ==
    \/ \E h \in {"nass", "ewg"} : Request(h)
    \/ \E h \in {"nass", "ewg"}, ok \in BOOLEAN : Response(h, ok)
    \/ \E h \in {"nass", "ewg"}, saved \in 0..Requests("nass") : Save(h, saved)

SpecTier1 == Tier1Init /\ [][Tier1Next]_vars

(***************************************************************************)
(* ProgramExtractor.extract_program_code, Database.upsert_program and      *)
(* process_discovered_pages                                                *)
(***************************************************************************)

\* longest page text, in words
MaxWords == 2
\* extraction runs over the stored pages
MaxPasses == 2

\* the words of a page text: two acronyms in parentheses, two bare acronyms
\* and the keyword
Words == {"(FSA)", "(CRP)", "FSA", "ARC", "program"}

\* re.findall(paren_pattern, w) for one word
Paren(w) ==
    IF w = "(FSA)" THEN <<"FSA">>
    ELSE IF w = "(CRP)" THEN <<"CRP">>
    ELSE <<>>

\* re.findall(code_pattern, w) for one word
Acronyms(w) ==
    IF w = "program" THEN <<>>
    ELSE IF Paren(w) # <<>> THEN Paren(w)
    ELSE <<w>>

\* re.findall(paren_pattern, text)
RECURSIVE ParenMatches(_)
ParenMatches(text) ==
    IF text = <<>> THEN <<>>
    ELSE Paren(Head(text)) \o ParenMatches(Tail(text))

\* re.findall(code_pattern, section); a text of the model is shorter than
\* the 200 characters the section is cut to
RECURSIVE CodeMatches(_)
CodeMatches(section) ==
    IF section = <<>> THEN <<>>
    ELSE Acronyms(Head(section)) \o CodeMatches(Tail(section))

\* re.split(r'(?i)program', text)
RECURSIVE Split(_)
Split(text) ==
    IF text = <<>> THEN << <<>> >>
    ELSE LET rest == Split(Tail(text))
         IN  IF Head(text) = "program" THEN << <<>> >> \o rest
             ELSE << <<Head(text)>> \o rest[1] >> \o Tail(rest)

\* the false positives the second path filters out
Denylist == {"FSA", "USDA", "USA", "PDF"}

Filtered(matches) == SelectSeq(matches, LAMBDA m : m \notin Denylist)

\* the loop over program_sections: the first section with a match that
\* survives the filter decides
RECURSIVE FirstFiltered(_)
FirstFiltered(sections) ==
    IF sections = <<>> THEN None
    ELSE IF Filtered(CodeMatches(Head(sections))) # <<>>
         THEN Some(Filtered(CodeMatches(Head(sections)))[1])
         ELSE FirstFiltered(Tail(sections))

extract_program_code(text) ==
    LET matches == ParenMatches(text)
        program_sections ==
            SubSeq(Split(text), 1, IF Len(Split(text)) < 2 THEN Len(Split(text)) ELSE 2)
    IN  IF matches # <<>> THEN Some(matches[1])
        ELSE FirstFiltered(program_sections)

\* the page texts raw_pages may hold
RECURSIVE TextsUpTo(_)
TextsUpTo(n) ==
    IF n = 0 THEN {<<>>}
    ELSE TextsUpTo(n - 1) \cup
         {Append(t, w) : t \in {x \in TextsUpTo(n - 1) : Len(x) = n - 1}, w \in Words}

Texts == TextsUpTo(MaxWords)

\* the arbiter of ON CONFLICT (program_code, source_url): the unique index
\* finds a row equal on both columns; a NULL code equals nothing when the
\* index keeps NULLs distinct
Conflicts(row, data) ==
    /\ row.source_url = data.source_url
    /\ row.program_code = data.program_code
    /\ (data.program_code = None => ~nulls_distinct)

\* INSERT INTO programs ... ON CONFLICT (program_code, source_url) DO UPDATE
\* SET last_updated = NOW(), <every column> = EXCLUDED.<column>
upsert_program(table, data, now) ==
    LET row == [program_code |-> data.program_code,
                source_url |-> data.source_url,
                last_updated |-> now]
    IN  IF \E i \in DOMAIN table : Conflicts(table[i], data)
        THEN [i \in DOMAIN table |->
                 IF Conflicts(table[i], data) THEN row ELSE table[i]]
        ELSE Append(table, row)

\* one iteration of the loop of process_discovered_pages: the page is
\* extracted and upserted, or the try block raises and the page is logged
ExtractAndUpsert(saved) ==
    /\ upc = "pages"
    /\ cursor <= Len(ProgramPages)
    /\ LET url == ProgramPages[cursor]
           text == raw_html[url]
           data == [source_url |-> url,
                    program_code |-> extract_program_code(text)]
       IN  /\ extracted' = Some([text |-> text, code |-> data.program_code])
           /\ IF saved
              THEN /\ programs' = upsert_program(programs, data, pass)
                   /\ last_upsert' = Some([program_code |-> data.program_code,
                                           source_url |-> url,
                                           last_updated |-> pass])
              ELSE UNCHANGED <<programs, last_upsert>>
    /\ cursor' = cursor + 1
    /\ UNCHANGED <<nulls_distinct, raw_html, upc, pass>>
    /\ UNCHANGED outsidePrograms

ExtractAndUpsertOk == ExtractAndUpsert(TRUE)
ExtractAndUpsertRaises == ExtractAndUpsert(FALSE)

\* the loop is over: extraction complete
PagesDone ==
    /\ upc = "pages"
    /\ cursor > Len(ProgramPages)
    /\ upc' = "done"
    /\ UNCHANGED <<nulls_distinct, raw_html, pass, cursor, programs, extracted,
                   last_upsert>>
    /\ UNCHANGED outsidePrograms

\* process_discovered_pages is run again over the same raw_pages
RunAgain ==
    /\ upc = "done"
    /\ pass < MaxPasses
    /\ upc' = "pages"
    /\ pass' = pass + 1
    /\ cursor' = 1
    /\ UNCHANGED <<nulls_distinct, raw_html, programs, extracted, last_upsert>>
    /\ UNCHANGED outsidePrograms

ProgramsInit ==
    /\ nulls_distinct \in BOOLEAN
    /\ raw_html \in [{ProgramPages[i] : i \in DOMAIN ProgramPages} -> Texts]
    /\ upc = "pages"
    /\ pass = 1
    /\ cursor = 1
    /\ programs = <<>>
    /\ extracted = None
    /\ last_upsert = None
    \* no crawler has been constructed
    /\ max_depth = 0
    /\ site = [u \in URLS |-> "unknown"]
    /\ rawPages = {}
    /\ rawLinks = [u \in URLS |-> {}]
    /\ discoveryJobs = <<>>
    /\ run = 0
    /\ relinked = FALSE
    /\ cpc = "idle"
    /\ visited_urls = {}
    /\ to_visit = <<>>
    /\ pdf_urls = {}
    /\ arrivals = 0
    /\ seeded = "none"
    /\ preexisting = {}
    /\ owed = {}
    /\ prevRun = "none"
    /\ lastPop = NoEntry
    /\ lastFetch = NoFetch
    /\ fetchCount = [u \in URLS |-> 0]
    /\ written = {}
    /\ failedFetch = {}
    /\ drained = {}
    \* the orchestrator has not started
    /\ enable = [n \in Tiers |-> TRUE]
    /\ ppc = "init"
    /\ tstate = [n \in Tiers |-> "pending"]
    /\ t2phase = "none"
    /\ job_id = FALSE
    /\ job = NoJob
    /\ conn = FALSE
    /\ statusWrites = 0
    /\ t2log = <<>>
    /\ sigintAt = "never"
    \* the extractor has no page
    /\ page = None
    /\ xpc = "idle"
    /\ program_data = None
    \* process_pdf has no file
    /\ PDFPLUMBER_AVAILABLE = TRUE
    /\ CAMELOT_AVAILABLE = TRUE
    /\ pdf = None
    /\ fpc = "idle"
    /\ result = None
    \* no PDF batch has run
    /\ max_concurrent_requests = 1
    /\ proc = 0
    /\ hash_seed = 0
    /\ files = {}
    /\ documents = {}
    /\ task = [u \in PdfUrls |-> "idle"]
    /\ permits = 0
    /\ failed_extractions = {}
    /\ urlOutcome = [u \in PdfUrls |-> "none"]
    /\ stored = {}
    /\ refetched = {}
    \* the tier-1 harvesters have not started
    /\ nass_api_key = TRUE
    /\ apc = "nass"
    /\ calls = 0
    /\ pending = FALSE
    /\ all_data = 0
    /\ rows = [h \in {"nass", "ewg"} |-> 0]
    /\ undelayed = FALSE
    /\ backToBack = FALSE
    \* tier 3 has not read the discovery jobs
    /\ tpc = "query"
    /\ tier_run = 1
    /\ pdf_url_rows = <<>>
    /\ document_rows = <<>>
    /\ handled = [u \in PdfUrls |-> 0]
    /\ first_download = [u \in PdfUrls |-> 0]

ProgramsNext ==
    \/ ExtractAndUpsertOk
    \/ ExtractAndUpsertRaises
    \/ PagesDone
    \/ RunAgain

SpecPrograms == ProgramsInit /\ [][ProgramsNext]_vars

(***************************************************************************)
(* process_discovered_pdfs: the PDF URLs read from the discovery jobs      *)
(***************************************************************************)

\* discovery jobs in the table when tier 3 starts
MaxJobs == 2
\* runs of tier 3
MaxTierRuns == 2

\* the contents scrape_jobs may have: each row the pdf_urls of one crawl,
\* oldest first (completed_at is the time of the insert)
RECURSIVE JobTables(_)
JobTables(n) ==
    IF n = 0 THEN {<<>>}
    ELSE JobTables(n - 1) \cup
         {Append(t, [pdf_urls |-> l]) :
              t \in {x \in JobTables(n - 1) : Len(x) = n - 1}, l \in SUBSET PdfUrls}

\* SELECT jsonb_array_elements_text(metadata->'pdf_urls') ... ORDER BY
\* completed_at DESC LIMIT 1: the set-returning function gives one row per
\* list element of every discovery job, newest job first, and LIMIT 1 keeps
\* the first of these rows.  A job with an empty list gives no row; the order
\* of the elements of one list is the order list(set) gave them.
SelectPdfUrls(jobs) ==
    LET withRows == {i \in DOMAIN jobs : jobs[i].pdf_urls # {}}
        newest == CHOOSE i \in withRows : \A j \in withRows : j <= i
    IN  IF withRows = {} THEN {<<>>}
        ELSE {<<u>> : u \in jobs[newest].pdf_urls}

\* db.fetch_all(query) and the list comprehension
Query ==
    /\ tpc = "query"
    /\ pdf_url_rows' \in SelectPdfUrls(discoveryJobs)
    /\ tpc' = "tasks"
    /\ UNCHANGED <<tier_run, document_rows, handled, first_download>>
    /\ UNCHANGED outsidePdfTier

\* INSERT INTO documents ... ON CONFLICT (source_url) DO UPDATE SET
\* download_timestamp = NOW(), full_text = EXCLUDED.full_text, tables = ...;
\* a new row gets the column default of download_timestamp, the time of the
\* insert
upsert_document(table, url, text, now) ==
    IF \E i \in DOMAIN table : table[i].source_url = url
    THEN [i \in DOMAIN table |->
             IF table[i].source_url = url
             THEN [table[i] EXCEPT !.download_timestamp = now, !.full_text = text]
             ELSE table[i]]
    ELSE Append(table, [source_url |-> url, download_timestamp |-> now,
                        full_text |-> text])

\* one task of the gather: process_pdf_url(url) runs to its end.  The download
\* fails, or process_pdf raises, or the file is extracted ("text": the
\* primary extractor gave text, "no_text": it gave none) and
\* save_to_database upserts the row unless the statement fails (logged)
ProcessUrl(how, saved) ==
    /\ tpc = "tasks"
    /\ \E i \in DOMAIN pdf_url_rows :
          LET url == pdf_url_rows[i]
          IN  /\ handled[url] = 0
              /\ handled' = [handled EXCEPT ![url] = @ + 1]
              /\ IF how \in {"text", "no_text"} /\ saved
                 THEN /\ document_rows' =
                             upsert_document(document_rows, url, how, tier_run)
                      /\ first_download' =
                             IF first_download[url] = 0
                             THEN [first_download EXCEPT ![url] = tier_run]
                             ELSE first_download
                 ELSE UNCHANGED <<document_rows, first_download>>
    /\ UNCHANGED <<tpc, tier_run, pdf_url_rows>>
    /\ UNCHANGED outsidePdfTier

\* asyncio.gather returns
Gathered ==
    /\ tpc = "tasks"
    /\ \A i \in DOMAIN pdf_url_rows : handled[pdf_url_rows[i]] > 0
    /\ tpc' = "done"
    /\ UNCHANGED <<tier_run, pdf_url_rows, document_rows, handled, first_download>>
    /\ UNCHANGED outsidePdfTier

\* tier 3 is run again later over the same discovery jobs
TierAgain ==
    /\ tpc = "done"
    /\ tier_run < MaxTierRuns
    /\ tier_run' = tier_run + 1
    /\ tpc' = "query"
    /\ pdf_url_rows' = <<>>
    /\ handled' = [u \in PdfUrls |-> 0]
    /\ UNCHANGED <<document_rows, first_download>>
    /\ UNCHANGED outsidePdfTier

PdfTierInit ==
    \* the discovery jobs earlier crawls saved
    /\ discoveryJobs \in JobTables(MaxJobs)
    /\ tpc = "query"
    /\ tier_run = 1
    /\ pdf_url_rows = <<>>
    /\ document_rows = <<>>
    /\ handled = [u \in PdfUrls |-> 0]
    /\ first_download = [u \in PdfUrls |-> 0]
    \* no crawler has been constructed
    /\ max_depth = 0
    /\ site = [u \in URLS |-> "unknown"]
    /\ rawPages = {}
    /\ rawLinks = [u \in URLS |-> {}]
    /\ run = 0
    /\ relinked = FALSE
    /\ cpc = "idle"
    /\ visited_urls = {}
    /\ to_visit = <<>>
    /\ pdf_urls = {}
    /\ arrivals = 0
    /\ seeded = "none"
    /\ preexisting = {}
    /\ owed = {}
    /\ prevRun = "none"
    /\ lastPop = NoEntry
    /\ lastFetch = NoFetch
    /\ fetchCount = [u \in URLS |-> 0]
    /\ written = {}
    /\ failedFetch = {}
    /\ drained = {}
    \* the orchestrator has not started
    /\ enable = [n \in Tiers |-> TRUE]
    /\ ppc = "init"
    /\ tstate = [n \in Tiers |-> "pending"]
    /\ t2phase = "none"
    /\ job_id = FALSE
    /\ job = NoJob
    /\ conn = FALSE
    /\ statusWrites = 0
    /\ t2log = <<>>
    /\ sigintAt = "never"
    \* the extractor has no page
    /\ page = None
    /\ xpc = "idle"
    /\ program_data = None
    \* process_pdf has no file
    /\ PDFPLUMBER_AVAILABLE = TRUE
    /\ CAMELOT_AVAILABLE = TRUE
    /\ pdf = None
    /\ fpc = "idle"
    /\ result = None
    \* no PDF batch has run
    /\ max_concurrent_requests = 1
    /\ proc = 0
    /\ hash_seed = 0
    /\ files = {}
    /\ documents = {}
    /\ task = [u \in PdfUrls |-> "idle"]
    /\ permits = 0
    /\ failed_extractions = {}
    /\ urlOutcome = [u \in PdfUrls |-> "none"]
    /\ stored = {}
    /\ refetched = {}
    \* the tier-1 harvesters have not started
    /\ nass_api_key = TRUE
    /\ apc = "nass"
    /\ calls = 0
    /\ pending = FALSE
    /\ all_data = 0
    /\ rows = [h \in {"nass", "ewg"} |-> 0]
    /\ undelayed = FALSE
    /\ backToBack = FALSE
    \* no extraction run has started
    /\ nulls_distinct = TRUE
    /\ raw_html = [u \in {ProgramPages[i] : i \in DOMAIN ProgramPages} |-> <<>>]
    /\ upc = "pages"
    /\ pass = 1
    /\ cursor = 1
    /\ programs = <<>>
    /\ extracted = None
    /\ last_upsert = None

PdfTierNext ==
    \/ Query
    \/ \E how \in {"download_failed", "raised", "text", "no_text"}, saved \in BOOLEAN :
          ProcessUrl(how, saved)
    \/ Gathered
    \/ TierAgain

SpecPdfTier == PdfTierInit /\ [][PdfTierNext]_vars

(***************************************************************************)
(* Properties of the discovery crawler                                     *)
(***************************************************************************)
Fetched == {u \in URLS : fetchCount[u] > 0}
Resumed == seeded \in {"loaded", "load_failed"}

C2_PoppedWithinMaxDepth ==
    lastPop /= NoEntry => lastPop.depth <= max_depth

\* C2 (amended): every (URL, depth) pair popped from to_visit has
\* depth <= max_depth + 1, and a popped pair with depth > max_depth is
\* dropped: it is not the page fetched by that iteration.
C2_PoppedWithinMaxDepthPlusOne ==
    lastPop /= NoEntry =>
        /\ lastPop.depth <= max_depth + 1
        /\ lastPop.depth > max_depth =>
              ~(lastFetch.url = lastPop.url /\ lastFetch.depth = lastPop.depth)

\* an entry one level below the maximum depth was dequeued
C2_Witness ==
    /\ lastPop.depth = max_depth + 1
    /\ lastFetch /= NoFetch

\* C3: every page fetch is for a URL that was not in the visited set when it
\* was dequeued and whose depth is at most max_depth.
C3_FetchOnlyUnvisitedWithinDepth ==
    lastFetch /= NoFetch =>
        /\ ~lastFetch.preVisited
        /\ lastFetch.depth <= max_depth

\* a page was fetched, and later an entry was dropped because it was visited
C3_Witness ==
    /\ lastFetch /= NoFetch
    /\ lastPop.url /= lastFetch.url
    /\ lastPop.url \in visited_urls
    /\ lastPop.depth <= max_depth
    /\ cpc \in {"loop1", "loop2"}

\* C4: a URL whose fetch gave a non-200 response or raised is in the visited
\* set, was fetched once in this run and was not written to raw_pages; the
\* step of the failed fetch leaves the crawl in its loop, and a crawl that
\* reaches save_discoveries has emptied the queue of both seeds.
C4_FailedFetchIsolated ==
    /\ [](\A u \in failedFetch :
             u \in visited_urls /\ fetchCount[u] = 1 /\ u \notin written)
    /\ [](cpc \in {"save", "done"} => drained = {"programs", "state"})
    /\ [][failedFetch' /= failedFetch /\ run' = run =>
             cpc' = cpc /\ cpc' \in {"loop1", "loop2"}]_vars

\* the first seed failed and the crawl went on to fetch and store the second
C4_Witness ==
    /\ START_URL \in failedFetch
    /\ STATE_URL \in written
    /\ cpc = "done"

C6_FifoOrder ==
    /\ [](lastFetch.section = "state" => "programs" \in drained)
    /\ [][(run' = run /\ lastPop' /= lastPop) => lastPop'.seq > lastPop.seq]_vars
    /\ [][(run' = run /\ fetchCount' /= fetchCount /\ lastFetch /= NoFetch
             /\ lastFetch'.section = lastFetch.section)
          => lastFetch'.depth >= lastFetch.depth]_vars

\* both seeds and a linked page were fetched, the linked page at depth 1
C6_Witness ==
    /\ lastFetch.section = "state"
    /\ fetchCount["programs"] = 1
    /\ fetchCount["loan"] = 1
    /\ Len(to_visit) >= 1

\* C27: within one crawl no URL is fetched more than once, however often it
\* was put in the queue and whichever seed it was reached from, and the
\* visited set only grows while the crawl runs.
C27_FetchedOncePerRun ==
    /\ [](\A u \in URLS : fetchCount[u] <= 1)
    /\ [][run' = run => visited_urls \subseteq visited_urls']_vars

\* the first seed linked a page twice: its first entry was fetched, its
\* second entry was dequeued later and dropped
C27_Witness ==
    /\ cpc = "loop1"
    /\ arrivals = 3
    /\ lastPop.url = "loan"
    /\ lastPop.seq = 3
    /\ lastFetch.url = "loan"
    /\ fetchCount["loan"] = 1

\* C28: when the crawl before was aborted with pages still in its queue, a
\* crawl that resumes from the store and runs to its end has fetched every
\* one of these pages that is within max_depth and has no raw_pages row.
C28_ResumeFetchesOwedPages ==
    (seeded = "loaded" /\ prevRun = "aborted" /\ cpc = "done") =>
        owed \subseteq Fetched

\* the PDF links of the raw_pages rows
StoredPdfLinks == UNION {rawLinks[u] : u \in rawPages}

\* C29: the discovery job that a crawl resumed from the store saves lists
\* every PDF link found on a page that has a raw_pages row, also the links of
\* the rows earlier crawls wrote.
C29_JobListsStoredPdfLinks ==
    [][(Len(discoveryJobs') > Len(discoveryJobs) /\ seeded = "loaded") =>
          StoredPdfLinks' \subseteq discoveryJobs'[Len(discoveryJobs')].pdf_urls]_vars

(***************************************************************************)
(* Properties of the orchestrator                                          *)
(***************************************************************************)
Active == {n \in Tiers : tstate[n] = "active"}
Started == {n \in Tiers : tstate[n] \in {"active", "ok", "failed", "interrupted"}}

\* C7: an Exception raised inside an enabled tier stops at that tier: the
\* step in which the tier fails leaves run() in its sequence of tiers with
\* the job still running, and when run() reaches finalize every enabled tier
\* has run, whichever tiers failed before it.
C7_TierFailureIsolated ==
    /\ [](ppc \in {"finalize", "close"} =>
             \A n \in Tiers : enable[n] => tstate[n] \in {"ok", "failed"})
    /\ [][\A n \in Tiers :
             (tstate[n] = "active" /\ tstate'[n] = "failed")
             => (ppc' = "tiers" /\ job'.status = "running"
                 /\ \A m \in Tiers : m /= n => tstate'[m] = tstate[m])]_vars

\* tiers 1 and 2 raised, tier 3 ran and the run reached its normal end
C7_Witness ==
    /\ tstate[1] = "failed"
    /\ tstate[2] = "failed"
    /\ tstate[3] = "ok"
    /\ ppc = "returned"
    /\ job.status = "completed"

\* C8: at most one tier is active at a time; a tier that has started finds
\* every tier before it returned (skipped, succeeded or failed and caught);
\* inside tier 2 the extraction starts only after the crawl has returned.
C8_TiersSequential ==
    /\ Cardinality(Active) <= 1
    /\ \A n \in Started : \A m \in Tiers : m < n => tstate[m] \in Finished
    /\ \A i \in 1..Len(t2log) :
          t2log[i] = "extract_start" => (i > 1 /\ t2log[i - 1] = "crawl_return")

\* tier 3 is running after tier 1 failed and tier 2 crawled and extracted
C8_Witness ==
    /\ tstate[1] = "failed"
    /\ tstate[2] = "ok"
    /\ tstate[3] = "active"
    /\ t2log = <<"crawl_start", "crawl_return", "extract_start", "extract_return">>

\* C9: the job status starts as running, is written at most once more, and
\* once completed, failed or interrupted it is not changed by a later write.
C9_StatusMonotonic ==
    /\ [](statusWrites <= 1)
    /\ [][(job.status = "none" /\ job'.status /= "none") => job'.status = "running"]_vars
    /\ [][job.status \in Terminal => job'.status = job.status]_vars

\* C10: a job in a terminal status has its end timestamp set, and a failed
\* job has an error message.
C10_TerminalHasEndTimestamp ==
    job.status \in Terminal =>
        /\ job.completed_at
        /\ job.status = "failed" => job.error_log

\* run() is over: it returned, or an exception left it
RunEnded == ppc \in {"returned", "raised", "cancelled"}

\* C11: when the interrupt signal arrives while the job is running, the run
\* ends with the job's status interrupted, and no tier that had not started
\* when the signal arrived is started afterwards.
C11_InterruptMarksJobAndHalts ==
    /\ []((sigintAt = "running" /\ RunEnded) => job.status = "interrupted")
    /\ [][sigintAt /= "never" => Started' \subseteq Started]_vars

\* C12: when run() is over, the job row it created is in a terminal status:
\* it is not left in running, whatever failed on the way.
C12_EndedRunHasTerminalJob ==
    (RunEnded /\ job.status /= "none") => job.status \in Terminal

\* C26: an exception caught at a tier boundary is recorded in the error log
\* of the pipeline job: when run() is over and a tier has raised, the
\* error_log of the job row is set.
C26_TierErrorInJobLog ==
    (RunEnded /\ job.status /= "none" /\ \E n \in Tiers : tstate[n] = "failed") =>
        job.error_log

(***************************************************************************)
(* Properties of the extractor                                             *)
(***************************************************************************)
Min(a, b) == IF a <= b THEN a ELSE b

\* the doubles nearest to 0.0, 0.1, ..., 1.0
Tenth == <<Float(0, 0), Float(26843545, 161061274), Float(53687091, 53687092),
           Float(80530636, 214748364), Float(107374182, 107374184),
           Float(134217728, 0), Float(161061273, 161061272),
           Float(187904819, 53687088), Float(214748364, 214748368),
           Float(241591910, 107374184), Float(268435456, 0)>>

\* the conditions that hold for an extracted record, in tenths
Points(d) ==
    (IF HasName(d) THEN 2 ELSE 0) + (IF HasDescription(d) THEN 2 ELSE 0)
    + (IF HasPayment(d) THEN 3 ELSE 0) + (IF HasEligibility(d) THEN 2 ELSE 0)
    + (IF HasDeadline(d) THEN 1 ELSE 0)

\* C13: the confidence score of an extracted record is the sum, capped at
\* 1.0, of 0.2 for a name, 0.2 for a description of more than 50 characters,
\* 0.3 for a payment figure or raw payment text, 0.2 for eligibility text and
\* 0.1 for an end date or deadline text; it lies between 0 and 1 and is
\* exactly 1.0 when all five conditions hold.
C13_ConfidenceIsCappedSum ==
    xpc = "extracted" =>
        /\ program_data.confidence_score = Tenth[Min(Points(program_data), 10) + 1]
        /\ FloatLeq(Zero, program_data.confidence_score)
        /\ FloatLeq(program_data.confidence_score, One)
        /\ Points(program_data) = 10 => program_data.confidence_score = One

Scenario == <<"$4.00", "to", "$9.50", "per hundredweight (cwt)">>
Contains(text, sub) ==
    \E i \in 1..Len(text) :
        /\ i + Len(sub) - 1 <= Len(text)
        /\ SubSeq(text, i, i + Len(sub) - 1) = sub

\* C14: a page whose text contains "$4.00 to $9.50 per hundredweight (cwt)"
\* gets payment_min 4.00, payment_max 9.50 and the payment unit cwt.
C14_RangePerHundredweight ==
    (xpc = "extracted" /\ Contains(page.text, Scenario)) =>
        /\ program_data.payment_min = Some(400)
        /\ program_data.payment_max = Some(950)
        /\ program_data.payment_unit \in {Some("cwt"), Some("per cwt")}

\* the dates the matched deadline strings of the page parse to
ParsedAt(pg) == {i \in 1..Len(pg.deadlines) : Parse(pg.deadlines[i]) /= None}
DatesOf(pg) == {Parse(pg.deadlines[i])[1] : i \in ParsedAt(pg)}

\* C15: when a matched deadline string parses, application_end is the latest
\* parsed date and application_start is the earliest one exactly when two or
\* more strings parsed, null otherwise; when both are set the start is not
\* after the end; when no string parses both are null.
C15_DeadlineStartEnd ==
    xpc = "extracted" =>
        LET n == Cardinality(ParsedAt(page))
            start == program_data.application_start
            end == program_data.application_end
        IN /\ n = 0 => (start = None /\ end = None)
           /\ n >= 1 => end = Some(SetMax(DatesOf(page)))
           /\ n >= 2 => start = Some(SetMin(DatesOf(page)))
           /\ n < 2 => start = None
           /\ (start /= None /\ end /= None) => start[1] <= end[1]

\* the later date is matched first: start and end come out in date order
C15_Witness ==
    /\ xpc = "extracted"
    /\ page.deadlines = <<"June 30, 2024", "March 1, 2024">>
    /\ program_data.application_start = Some(20240301)
    /\ program_data.application_end = Some(20240630)

(***************************************************************************)
(* Properties of the PDF ingestor                                          *)
(***************************************************************************)
\* the primary extractor ran and returned text that is not empty
PrimaryGaveText ==
    /\ PDFPLUMBER_AVAILABLE
    /\ ~pdf.unreadable
    /\ \E n \in 1..Len(pdf.pages) : pdf.pages[n].text

NoTextNoTables ==
    \A n \in 1..Len(pdf.pages) :
        ~pdf.pages[n].text /\ ~pdf.pages[n].tables /\ ~pdf.pages[n].lattice

\* C16 as stated: success is true only when the primary extractor returned
\* text that is not empty; when the primary threw or gave no text the result
\* has success false, empty text and the fallback's extraction method; a PDF
\* with no text and no tables gives success false and no tables.
C16_FallbackReportsItsMethod ==
    fpc = "processed" =>
        /\ result.success => PrimaryGaveText
        /\ ~PrimaryGaveText =>
              /\ ~result.success
              /\ result.text = <<>>
              /\ result.extraction_method = Some("camelot")
        /\ NoTextNoTables => (~result.success /\ result.tables = <<>>)

\* C16, amended: as above, but the method is the fallback's when the fallback
\* extractor is installed; without it the result keeps what the primary left
\* (its method with empty text, or no method when the primary did not run
\* to its end).
C16_FallbackReportsItsMethodIfInstalled ==
    fpc = "processed" =>
        /\ result.success => PrimaryGaveText
        /\ ~PrimaryGaveText =>
              /\ ~result.success
              /\ result.text = <<>>
              /\ CAMELOT_AVAILABLE => result.extraction_method = Some("camelot")
              /\ ~CAMELOT_AVAILABLE =>
                    result.extraction_method =
                        IF PDFPLUMBER_AVAILABLE /\ ~pdf.unreadable
                        THEN Some("pdfplumber") ELSE None
        /\ NoTextNoTables => (~result.success /\ result.tables = <<>>)

\* the primary extractor threw on a file with a lattice table: the result is
\* the fallback's tables, without success
C16_Witness ==
    /\ fpc = "processed"
    /\ PDFPLUMBER_AVAILABLE /\ CAMELOT_AVAILABLE
    /\ pdf.unreadable
    /\ result.tables /= <<>>
    /\ result.extraction_method = Some("camelot")
    /\ ~result.success
    /\ result.text = <<>>

\* C17: a URL of which an earlier ingestion, in this process or in one
\* before it, stored a local copy is not requested again, whether its file
\* name comes from the URL or from the hash.
C17_StoredCopyIsReused == refetched = {}

InFlight == {u \in PdfUrls : task[u] \in {"download", "sleep"}}

\* C18: every URL of the batch whose download failed or whose extraction
\* raised is in failed_extractions, and the other URLs are still processed:
\* a task that waits while no other is at work finds a permit.
C18_FailuresAreListed ==
    /\ \A u \in PdfUrls :
          urlOutcome[u] \in {"download_failed", "raised"} => u \in failed_extractions
    /\ (InFlight = {} /\ \E u \in PdfUrls : task[u] = "waiting") => permits > 0

\* C19: the PDFs being downloaded or processed at one time never number more
\* than max_concurrent_requests, and every task that waits for a permit gets
\* one and finishes.
C19_BoundedAndLive ==
    /\ [](Cardinality(InFlight) <= max_concurrent_requests)
    /\ \A u \in PdfUrls : (task[u] = "waiting") ~> (task[u] = "done")

\* every permit is taken and a third task waits for one
C19_Witness ==
    /\ max_concurrent_requests = 2
    /\ Cardinality(InFlight) = 2
    /\ permits = 0
    /\ \E u \in PdfUrls : task[u] = "waiting"

\* the URLs process_pdf_url has given a local file in this process
Served == {u \in PdfUrls : urlOutcome[u] \in {"reused", "downloaded", "text",
                                                 "no_text", "raised"}}

\* C30: two different URLs of a batch are never served from the same local
\* file, and a URL that is served from an existing file is served from a
\* file its own download wrote, also when the URLs share their last path
\* segment.
C30_OwnFilePerUrl ==
    /\ \A u, v \in Served :
           u # v => FileName(u, hash_seed) # FileName(v, hash_seed)
    /\ \A u \in PdfUrls : urlOutcome[u] = "reused" => u \in stored

(***************************************************************************)
(* Properties of the tier-1 harvesters                                     *)
(***************************************************************************)
\* C20: after every request of a tier-1 harvester, answered or failed, the
\* politeness delay is awaited before the next request is issued.
C20_DelayAfterEveryCall == ~backToBack

\* C24: with the NASS API key missing the NASS harvester issues no request
\* at all: the error is raised before any network activity.
C24_NoCallWithoutKey ==
    (~nass_api_key /\ apc = "nass") => (calls = 0 /\ ~pending)

(***************************************************************************)
(* Properties of program extraction and the programs table                 *)
(***************************************************************************)

\* C21: upserting a program again under the same (program_code, source_url)
\* key leaves exactly one row for that key, and the row holds the values of
\* the latest write; a null program_code is a key like any other, so a
\* second extraction run over the same pages adds no row.
C21_OneRowPerKey ==
    /\ \A i, j \in DOMAIN programs :
           (/\ programs[i].program_code = programs[j].program_code
            /\ programs[i].source_url = programs[j].source_url) => i = j
    /\ last_upsert # None =>
           \E i \in DOMAIN programs : programs[i] = last_upsert[1]

\* C23: the code extract_program_code returns is never one of the
\* denylisted acronyms FSA, USDA, USA, PDF, whichever path produced it.
C23_CodeNeverDenylisted ==
    extracted # None =>
        \/ extracted[1].code = None
        \/ extracted[1].code[1] \notin Denylist

(***************************************************************************)
(* Properties of the PDF URL list of tier 3                                *)
(***************************************************************************)

\* C22: the URLs tier 3 processes are exactly the pdf_urls list of the most
\* recent discovery job, each of them processed once and no other URL at all.
C22_ProcessesExactlyTheList ==
    tpc = "done" =>
        LET latest == IF discoveryJobs = <<>> THEN {}
                      ELSE discoveryJobs[Len(discoveryJobs)].pdf_urls
        IN  \A u \in PdfUrls : handled[u] = (IF u \in latest THEN 1 ELSE 0)

\* C25: re-ingesting a PDF whose source URL has a row overwrites the text
\* and tables of the row, leaves its original download timestamp as it was,
\* and keeps one row for the URL.
C25_ReingestKeepsTimestamp ==
    /\ \A i, j \in DOMAIN document_rows :
           document_rows[i].source_url = document_rows[j].source_url => i = j
    /\ \A i \in DOMAIN document_rows :
           document_rows[i].download_timestamp =
               first_download[document_rows[i].source_url]


====
